---------------------------- MODULE Spec2Model ----------------------------
(***************************************************************************)
(* Assist Quality Rating (AQR): the scoring and normalisation engine of    *)
(* src/AQR_CLI_DB.py (the "DB variant"), with the zone classifier and the  *)
(* skill model of src/AQR_COMMAND_LINE.py and src/AQR.py beside it.        *)
(*                                                                         *)
(* Every operation of the program is an action that records what was       *)
(* called and what came back in the variable ret; the module-level caches  *)
(* of the program are variables of their own.                              *)
(*                                                                         *)
(* Encodings.  Python's None is the string "None" where a label is         *)
(* expected and the empty sequence << >> where a number is expected (a     *)
(* present number v is <<v>>).  Distances and coordinates are in tenths of *)
(* a foot, so 4.5 ft is 45.  An exception leaving a function is the        *)
(* string naming it ("TypeError", "StatisticsError").                      *)
(***************************************************************************)
EXTENDS Integers, Sequences, FiniteSets, TLC

VARIABLES
    input,            \* the argument the pure function under check is applied to
    ret,              \* the last call: [op, its arguments, val |-> what it returned]
    prev,             \* the call before the last one
    db,               \* the shots table: per season, the assisted shots (what each scores)
    AQR_STATS_CACHE,  \* src/AQR_CLI_DB.py:8, season -> stats of the seasons built so far
    SHOOTER_CACHE,    \* src/AQR_CLI_DB.py:132, shooter -> the shots fetched for the shooter
    SKILL_CACHE,      \* src/AQR_CLI_DB.py:133, (shooter, season) -> skill profile
    pc,               \* the statement each execution in progress is at
    local,            \* the local variables of each execution in progress
    files             \* src/GET_AVERAGES.py:12-13, the progress file and the output file

vars == <<input, ret, prev, db, AQR_STATS_CACHE, SHOOTER_CACHE, SKILL_CACHE, pc, local, files>>

None == << >>
Some(v) == <<v>>
Val(o) == o[1]

NoCall == [op |-> "none"]

-----------------------------------------------------------------------------
(* Zone classification                                                     *)

Zones == {"AtRim", "ShortMidRange", "LongMidRange", "Arc3", "Corner3"}

\* The keys of TYPE_MAP, and what each maps to.
TYPE_MAP_keys == Zones \cup {"AboveBreak3"}
TYPE_MAP(st) == IF st = "AboveBreak3" THEN "Arc3" ELSE st

\* Labels a record can carry: the known ones, one unknown label, and None.
Labels == TYPE_MAP_keys \cup {"Layup", "None"}

\* Largest distance tried, in tenths of a foot.
MaxDist == 230

\* Lateral coordinates tried, in tenths of a foot (both sides of 22 ft).
XVals == {-221, -220, 0, 220, 221}

Dists == {None} \cup {Some(d) : d \in 0..MaxDist}
Xs == {None} \cup {Some(x) : x \in XVals}

Shots == [shot_type : Labels, shot_distance : Dists, x : Xs]

Abs(i) == IF i < 0 THEN -i ELSE i

\* Thresholds of the fallback rules, in tenths of a foot.
AtRimMax == 45
AtRimMaxAQR == 50
ShortMidMax == 140
ThreeMin == 220
CornerMaxDist == 225
CornerMinX == 220

\* src/AQR_CLI_DB.py: the label is returned as it is; the statements after
\* the return are never executed.
get_zone(shot) ==
    LET st == shot.shot_type
    IN  st

\* src/AQR_COMMAND_LINE.py: label first, geometry as the fallback.
get_zone_COMMAND_LINE(shot) ==
    LET st == shot.shot_type
        dist == shot.shot_distance
        x == shot.x
    IN  IF st \in TYPE_MAP_keys THEN TYPE_MAP(st)
        ELSE IF dist = None THEN "LongMidRange"
        ELSE IF Val(dist) <= AtRimMax THEN "AtRim"
        ELSE IF Val(dist) <= ShortMidMax THEN "ShortMidRange"
        ELSE IF Val(dist) >= ThreeMin
             THEN IF x # None /\ Abs(Val(x)) > CornerMinX /\ Val(dist) <= CornerMaxDist
                  THEN "Corner3"
                  ELSE "Arc3"
        ELSE "LongMidRange"

\* src/AQR.py: threes by label, everything else by distance alone.  Comparing
\* None with a number raises TypeError.
get_zone_AQR(shot) ==
    LET st == shot.shot_type
        dist == shot.shot_distance
    IN  IF st = "Corner3" THEN "Corner3"
        ELSE IF st \in {"AboveBreak3", "Arc3"} THEN "Arc3"
        ELSE IF dist = None THEN "TypeError"
        ELSE IF Val(dist) <= AtRimMaxAQR THEN "AtRim"
        ELSE IF Val(dist) <= ShortMidMax THEN "ShortMidRange"
        ELSE "LongMidRange"

CallGetZoneDB ==
    /\ ret = NoCall
    /\ ret' = [op |-> "get_zone", variant |-> "DB", shot |-> input,
               val |-> get_zone(input)]
    /\ UNCHANGED <<pc, local, files, SHOOTER_CACHE, SKILL_CACHE, input, prev, db, AQR_STATS_CACHE>>

CallGetZoneCommandLine ==
    /\ ret = NoCall
    /\ ret' = [op |-> "get_zone", variant |-> "COMMAND_LINE", shot |-> input,
               val |-> get_zone_COMMAND_LINE(input)]
    /\ UNCHANGED <<pc, local, files, SHOOTER_CACHE, SKILL_CACHE, input, prev, db, AQR_STATS_CACHE>>

CallGetZoneAQR ==
    /\ ret = NoCall
    /\ ret' = [op |-> "get_zone", variant |-> "AQR", shot |-> input,
               val |-> get_zone_AQR(input)]
    /\ UNCHANGED <<pc, local, files, SHOOTER_CACHE, SKILL_CACHE, input, prev, db, AQR_STATS_CACHE>>

\* A pure function is applied once to an argument drawn at the start.
InitPure(Inputs) ==
    /\ input \in Inputs
    /\ ret = NoCall
    /\ prev = NoCall
    /\ db = << >>
    /\ AQR_STATS_CACHE = << >>
    /\ SHOOTER_CACHE = << >>
    /\ SKILL_CACHE = << >>
    /\ pc = << >>
    /\ local = << >>
    /\ files = << >>

NextZone ==
    \/ CallGetZoneDB
    \/ CallGetZoneCommandLine
    \/ CallGetZoneAQR

InitZone == InitPure(Shots)

SpecZone == InitZone /\ [][NextZone]_vars

IsZoneCall == ret.op = "get_zone"

\* C4: a shot with a recognized 3-point label is classified Corner3 (corner
\* label) or Arc3 (arc / above-the-break label) whatever its distance and
\* coordinates, by each of the three classifiers.
C4_ThreePointLabelDecides ==
    (IsZoneCall /\ ret.shot.shot_type \in {"Corner3", "Arc3", "AboveBreak3"})
        => ret.val = (IF ret.shot.shot_type = "Corner3" THEN "Corner3" ELSE "Arc3")

\* C5: get_zone of the DB and command-line variants is total: every shot
\* record, also one without label, distance or coordinates, gets exactly one
\* of the five zones.
C5_GetZoneTotal ==
    (IsZoneCall /\ ret.variant \in {"DB", "COMMAND_LINE"}) => ret.val \in Zones

\* The geometric fallback as the specification states it.
FallbackZone(shot) ==
    LET dist == shot.shot_distance
        x == shot.x
    IN  IF dist = None THEN "LongMidRange"
        ELSE IF Val(dist) <= 45 THEN "AtRim"
        ELSE IF Val(dist) <= 140 THEN "ShortMidRange"
        ELSE IF Val(dist) >= 220
             THEN IF x # None /\ Abs(Val(x)) > 220 /\ Val(dist) <= 225
                  THEN "Corner3"
                  ELSE "Arc3"
        ELSE "LongMidRange"

\* C6: a shot with an unknown or missing label is classified by geometry:
\* no distance -> LongMidRange; <= 4.5 -> AtRim; <= 14 -> ShortMidRange;
\* >= 22 -> Corner3 when |x| > 22 and distance <= 22.5, else Arc3; anything
\* else -> LongMidRange.
C6_GeometryFallback ==
    (IsZoneCall /\ ret.shot.shot_type \notin TYPE_MAP_keys)
        => ret.val = FallbackZone(ret.shot)

-----------------------------------------------------------------------------
(* Exact rational arithmetic.  A number is <<n, d>> with d > 0 in lowest    *)
(* terms; a decimal literal of the source (0.665, 0.05, 1.10) is the        *)
(* rational it denotes.                                                     *)

RECURSIVE GCD(_, _)
GCD(a, b) == IF b = 0 THEN a ELSE GCD(b, a % b)

Norm(n, d) ==
    LET g == GCD(Abs(n), Abs(d))
        s == IF d < 0 THEN -1 ELSE 1
    IN  <<(s * n) \div g, (s * d) \div g>>

R(i) == <<i, 1>>
RAdd(p, q) ==
    LET l == (p[2] \div GCD(p[2], q[2])) * q[2]
    IN  Norm(p[1] * (l \div p[2]) + q[1] * (l \div q[2]), l)
RNeg(p) == <<-p[1], p[2]>>
RSub(p, q) == RAdd(p, RNeg(q))
RMul(p, q) ==
    LET g1 == GCD(Abs(p[1]), q[2])
        g2 == GCD(Abs(q[1]), p[2])
    IN  IF p[1] = 0 \/ q[1] = 0 THEN R(0)
        ELSE Norm((p[1] \div g1) * (q[1] \div g2), (p[2] \div g2) * (q[2] \div g1))
RDiv(p, q) == RMul(p, Norm(q[2], q[1]))
RLe(p, q) == RSub(p, q)[1] <= 0
RLt(p, q) == RSub(p, q)[1] < 0
RMin(p, q) == IF RLe(p, q) THEN p ELSE q

-----------------------------------------------------------------------------
(* Shooter skill model                                                      *)

\* The kinds of shot a history is made of: label, distance, coordinate, made.
Kinds == <<
    [shot_type |-> "AtRim",       shot_distance |-> Some(20),  x |-> Some(0),   made |-> FALSE],
    [shot_type |-> "AtRim",       shot_distance |-> Some(20),  x |-> Some(0),   made |-> TRUE],
    [shot_type |-> "Corner3",     shot_distance |-> Some(225), x |-> Some(221), made |-> TRUE],
    [shot_type |-> "Corner3",     shot_distance |-> Some(225), x |-> Some(221), made |-> FALSE],
    [shot_type |-> "AboveBreak3", shot_distance |-> Some(230), x |-> Some(0),   made |-> TRUE],
    [shot_type |-> "None",        shot_distance |-> Some(30),  x |-> None,      made |-> TRUE] >>

\* Most shots of the first kind, and of every other kind, in a history.
MaxBulk == 21
MaxFew == 2

\* A shot history, as the number of shots of each kind (the loop over the
\* shots only counts, so their order does not matter).
Histories ==
    {<<a, b, c, d, e, f>> : a \in 0..MaxBulk, b \in 0..MaxFew, c \in 0..MaxFew,
                            d \in 0..1, e \in 0..MaxFew, f \in 0..1}

RECURSIVE CountFrom(_, _, _)
\* Number of shots of history h, among kinds k..Len(Kinds), that satisfy P.
CountFrom(h, P(_), k) ==
    IF k > Len(Kinds) THEN 0
    ELSE (IF P(Kinds[k]) THEN h[k] ELSE 0) + CountFrom(h, P, k + 1)

Count(h, P(_)) == CountFrom(h, P, 1)

ZONE_PRIORS(zone) ==
    CASE zone = "AtRim" -> Norm(665, 1000)
      [] zone = "ShortMidRange" -> Norm(442, 1000)
      [] zone = "LongMidRange" -> Norm(413, 1000)
      [] zone = "Arc3" -> Norm(351, 1000)
      [] zone = "Corner3" -> Norm(388, 1000)

ZONE_PRIORS_API(zone) ==
    CASE zone = "AtRim" -> Norm(60, 100)
      [] zone = "ShortMidRange" -> Norm(41, 100)
      [] zone = "LongMidRange" -> Norm(38, 100)
      [] zone = "Arc3" -> Norm(354, 1000)
      [] zone = "Corner3" -> Norm(378, 1000)

ShareMin == Norm(5, 100)
SkillCap == Norm(110, 100)

\* ZoneSkill without the sparse-volume branch: the base skill whatever the share.
ZoneSkill_NoFloor(att, mk, total_att, prior, m, floor) ==
    RDiv(RDiv(RAdd(R(mk), RMul(R(m), prior)), R(att + m)), prior)

\* The body of the loop over ZONE_PRIORS: the skill of one zone from its
\* attempts, makes, prior, the total attempts, m and the floor.
ZoneSkill(att, mk, total_att, prior, m, floor) ==
    LET smoothed_fg == RDiv(RAdd(R(mk), RMul(R(m), prior)), R(att + m))
        base_skill == RDiv(smoothed_fg, prior)
        share == IF total_att # 0 THEN Norm(att, total_att) ELSE R(0)
    IN  IF RLe(ShareMin, share) THEN base_skill
        ELSE LET t == RDiv(share, ShareMin)
             IN  RAdd(floor, RMul(t, RSub(base_skill, floor)))

\* attempts / makes as the first loop fills them, under classifier Z.
Attempts(h, Z(_), zone) == Count(h, LAMBDA s : Z(s) = zone)
Makes(h, Z(_), zone) == Count(h, LAMBDA s : Z(s) = zone /\ s.made)
\* sum(attempts.values()): every shot is counted under some key.
TotalAtt(h) == Count(h, LAMBDA s : TRUE)

\* compute_shooter_skill without the final cap.
compute_shooter_skill_NoCap(shots) ==
    [zone \in Zones |->
        ZoneSkill(Attempts(shots, get_zone, zone), Makes(shots, get_zone, zone),
                  TotalAtt(shots), ZONE_PRIORS(zone), 20, <<1, 2>>)]

\* src/AQR_CLI_DB.py, m = 20, floor 0.5, capped at 1.10.
compute_shooter_skill(shots) ==
    [zone \in Zones |->
        RMin(ZoneSkill(Attempts(shots, get_zone, zone), Makes(shots, get_zone, zone),
                       TotalAtt(shots), ZONE_PRIORS(zone), 20, <<1, 2>>),
             SkillCap)]

\* src/AQR_COMMAND_LINE.py, m = 40, floor 0.15, no cap.
compute_shooter_skill_COMMAND_LINE(shots) ==
    [zone \in Zones |->
        ZoneSkill(Attempts(shots, get_zone_COMMAND_LINE, zone),
                  Makes(shots, get_zone_COMMAND_LINE, zone),
                  TotalAtt(shots), ZONE_PRIORS_API(zone), 40, Norm(15, 100))]

\* src/AQR.py, m = 50, floor 0.20, no cap.
compute_shooter_skill_AQR(shots) ==
    [zone \in Zones |->
        ZoneSkill(Attempts(shots, get_zone_AQR, zone), Makes(shots, get_zone_AQR, zone),
                  TotalAtt(shots), ZONE_PRIORS_API(zone), 50, Norm(20, 100))]

CallSkillDB ==
    /\ ret = NoCall
    /\ ret' = [op |-> "compute_shooter_skill", variant |-> "DB", shots |-> input,
               val |-> compute_shooter_skill(input)]
    /\ UNCHANGED <<pc, local, files, SHOOTER_CACHE, SKILL_CACHE, input, prev, db, AQR_STATS_CACHE>>

CallSkillCommandLine ==
    /\ ret = NoCall
    /\ ret' = [op |-> "compute_shooter_skill", variant |-> "COMMAND_LINE", shots |-> input,
               val |-> compute_shooter_skill_COMMAND_LINE(input)]
    /\ UNCHANGED <<pc, local, files, SHOOTER_CACHE, SKILL_CACHE, input, prev, db, AQR_STATS_CACHE>>

CallSkillAQR ==
    /\ ret = NoCall
    /\ ret' = [op |-> "compute_shooter_skill", variant |-> "AQR", shots |-> input,
               val |-> compute_shooter_skill_AQR(input)]
    /\ UNCHANGED <<pc, local, files, SHOOTER_CACHE, SKILL_CACHE, input, prev, db, AQR_STATS_CACHE>>

NextSkill ==
    \/ CallSkillDB
    \/ CallSkillCommandLine
    \/ CallSkillAQR

InitSkill == InitPure(Histories)

SpecSkill == InitSkill /\ [][NextSkill]_vars

IsSkillCall == ret.op = "compute_shooter_skill"

\* The zone of a shot as the specification classifies it: label first,
\* geometry for an unknown or missing label.
ZoneOfShot(shot) ==
    IF shot.shot_type = "Corner3" THEN "Corner3"
    ELSE IF shot.shot_type \in {"Arc3", "AboveBreak3"} THEN "Arc3"
    ELSE IF shot.shot_type \in {"AtRim", "ShortMidRange", "LongMidRange"} THEN shot.shot_type
    ELSE FallbackZone(shot)

ZoneAttempts(h, zone) == Count(h, LAMBDA s : ZoneOfShot(s) = zone)
ZoneMakes(h, zone) == Count(h, LAMBDA s : ZoneOfShot(s) = zone /\ s.made)

\* The configured floor, regression weight and priors of each implementation.
FloorOf(variant) ==
    CASE variant = "DB" -> <<1, 2>>
      [] variant = "COMMAND_LINE" -> <<3, 20>>
      [] variant = "AQR" -> <<1, 5>>
WeightOf(variant) ==
    CASE variant = "DB" -> 20
      [] variant = "COMMAND_LINE" -> 40
      [] variant = "AQR" -> 50
PriorOf(variant, zone) ==
    IF variant = "DB" THEN ZONE_PRIORS(zone) ELSE ZONE_PRIORS_API(zone)

\* C7: for every shot history, the empty one included, compute_shooter_skill
\* (DB and command-line variants) returns an entry for each of the five
\* zones, and a zone without attempts gets exactly the floor of that variant.
C7_ZeroAttemptsGetFloor ==
    (IsSkillCall /\ ret.variant \in {"DB", "COMMAND_LINE"})
        => /\ DOMAIN ret.val = Zones
           /\ \A z \in Zones :
                 ZoneAttempts(ret.shots, z) = 0 => ret.val[z] = FloorOf(ret.variant)

\* C7 witness: the DB variant was applied to the empty history and every zone
\* came back at the floor 0.5.
C7_Witness ==
    /\ IsSkillCall
    /\ ret.variant = "DB"
    /\ TotalAtt(ret.shots) = 0
    /\ \A z \in Zones : ret.val[z] = <<1, 2>>

\* The skill the specification prescribes for a zone: base skill at a share
\* of at least 0.05, else floor + (share / 0.05) * (base - floor).
BaseSkill(h, variant, zone) ==
    RDiv(RDiv(RAdd(R(ZoneMakes(h, zone)), RMul(R(WeightOf(variant)), PriorOf(variant, zone))),
              R(ZoneAttempts(h, zone) + WeightOf(variant))),
         PriorOf(variant, zone))
ShareOf(h, zone) ==
    IF TotalAtt(h) = 0 THEN R(0) ELSE Norm(ZoneAttempts(h, zone), TotalAtt(h))
PrescribedSkill(h, variant, zone) ==
    LET base == BaseSkill(h, variant, zone)
        share == ShareOf(h, zone)
        floor == FloorOf(variant)
        skill == IF RLe(<<1, 20>>, share) THEN base
                 ELSE RAdd(floor, RMul(RMul(share, R(20)), RSub(base, floor)))
    IN  IF variant = "DB" THEN RMin(skill, <<11, 10>>) ELSE skill

Between(v, a, b) == (RLe(a, v) /\ RLe(v, b)) \/ (RLe(b, v) /\ RLe(v, a))

\* C8: with share = zone attempts / total attempts over all input shots, the
\* skill of a zone (DB and src/AQR.py variants) is the base skill when
\* share >= 0.05 and floor + (share / 0.05) * (base - floor) otherwise, so below
\* 0.05 it lies between the floor and the base skill; the DB variant then caps
\* it at 1.10.
C8_ShareInterpolation ==
    (IsSkillCall /\ ret.variant \in {"DB", "AQR"})
        => \A z \in Zones :
              /\ ret.val[z] = PrescribedSkill(ret.shots, ret.variant, z)
              /\ RLt(ShareOf(ret.shots, z), <<1, 20>>)
                    => Between(ret.val[z], FloorOf(ret.variant),
                               BaseSkill(ret.shots, ret.variant, z))

\* C9: every zone multiplier of the DB variant's profile is strictly positive
\* and at most 1.10, however many makes the zone has.
C9_SkillPositiveAndCapped ==
    (IsSkillCall /\ ret.variant = "DB")
        => \A z \in Zones : RLt(R(0), ret.val[z]) /\ RLe(ret.val[z], <<11, 10>>)

\* C9 witness: a zone whose uncapped skill exceeds 1.10 (two makes in two
\* Corner3 attempts out of few shots) came back at exactly 1.10.
C9_Witness ==
    /\ IsSkillCall
    /\ ret.variant = "DB"
    /\ RLt(<<11, 10>>, compute_shooter_skill_NoCap(ret.shots)["Corner3"])
    /\ ret.val["Corner3"] = <<11, 10>>

-----------------------------------------------------------------------------
(* Python float arithmetic (IEEE-754 binary64, round to nearest, ties to    *)
(* even), bit for bit.  A non-negative number is [m |-> digits, e |-> k]:   *)
(* the digits are those of an integer in base 2^15, most significant first  *)
(* and without leading zeros (<< >> is 0), and the value is that integer    *)
(* times 2^k.  A float has an odd integer of at most MantBits bits.         *)

MantBits == 53
DigitBits == 15
Base == 2 ^ DigitBits
\* Binary places a quotient is developed to before it is rounded.
DivPlaces == 5 * DigitBits

Max(a, b) == IF a >= b THEN a ELSE b
Min(a, b) == IF a <= b THEN a ELSE b

Zeros(k) == [i \in 1..k |-> 0]
Pad(b, k) == Zeros(k - Len(b)) \o b

RECURSIVE Strip(_)
Strip(b) == IF b # << >> /\ b[1] = 0 THEN Strip(Tail(b)) ELSE b

Digits(n) == Strip(<<n \div Base, n % Base>>)

RECURSIVE IntOf(_)
IntOf(b) == IF b = << >> THEN 0 ELSE Base * IntOf(SubSeq(b, 1, Len(b) - 1)) + b[Len(b)]

RECURSIVE MulFrom(_, _, _, _, _)
MulFrom(b, c, i, acc, carry) ==
    IF i = 0 THEN Strip(<<carry>> \o acc)
    ELSE MulFrom(b, c, i - 1, <<(b[i] * c + carry) % Base>> \o acc, (b[i] * c + carry) \div Base)
\* digits of (integer b) * c, for a natural c < Base
MulSmall(b, c) == MulFrom(b, c, Len(b), << >>, 0)

RECURSIVE AddFrom(_, _, _, _, _)
AddFrom(a, b, i, acc, carry) ==
    IF i = 0 THEN Strip(<<carry>> \o acc)
    ELSE AddFrom(a, b, i - 1, <<(a[i] + b[i] + carry) % Base>> \o acc, (a[i] + b[i] + carry) \div Base)
AddDigits(a, b) ==
    LET k == Max(Len(a), Len(b))
    IN  AddFrom(Pad(a, k), Pad(b, k), k, << >>, 0)

RECURSIVE MulDigitsFrom(_, _, _, _)
MulDigitsFrom(a, b, i, acc) ==
    IF i > Len(b) THEN acc
    ELSE MulDigitsFrom(a, b, i + 1, AddDigits(Strip(acc \o <<0>>), MulSmall(a, b[i])))
MulDigits(a, b) == MulDigitsFrom(a, b, 1, << >>)

RECURSIVE DivFrom(_, _, _, _, _)
\* <<quotient digits, remainder>> of (integer b) divided by d, 0 < d <= Base
DivFrom(b, d, i, q, r) ==
    IF i > Len(b) THEN <<Strip(q), r>>
    ELSE DivFrom(b, d, i + 1, Append(q, (r * Base + b[i]) \div d), (r * Base + b[i]) % d)
DivSmall(b, d) == DivFrom(b, d, 1, << >>, 0)

RECURSIVE BitLenInt(_)
BitLenInt(n) == IF n = 0 THEN 0 ELSE 1 + BitLenInt(n \div 2)
BitLen(b) == IF b = << >> THEN 0 ELSE DigitBits * (Len(b) - 1) + BitLenInt(b[1])

\* (integer b) * 2^k
ShiftLeft(b, k) ==
    IF b = << >> THEN << >>
    ELSE MulSmall(b \o Zeros(k \div DigitBits), 2 ^ (k % DigitBits))

\* <<floor((integer b) / 2^k), whether a nonzero bit was shifted out>>
ShiftRight(b, k) ==
    LET n == Min(k \div DigitBits, Len(b))
        hi == SubSeq(b, 1, Len(b) - n)
        q == DivSmall(hi, 2 ^ (k % DigitBits))
    IN  <<q[1], q[2] # 0 \/ \E i \in (Len(b) - n + 1)..Len(b) : b[i] # 0>>

IsOdd(b) == b # << >> /\ b[Len(b)] % 2 = 1

\* (integer b) / 2^k rounded to the nearest integer, ties to even; sticky
\* says that the exact dividend is above b by less than one.
RoundShift(b, k, sticky) ==
    IF k = 0 THEN b
    ELSE LET a == ShiftRight(b, k - 1)
             q == DivSmall(a[1], 2)[1]
             up == IsOdd(a[1]) /\ (a[2] \/ sticky \/ IsOdd(q))
         IN  IF up THEN AddDigits(q, <<1>>) ELSE q

RECURSIVE TrailingZerosInt(_)
TrailingZerosInt(n) == IF n % 2 = 1 THEN 0 ELSE 1 + TrailingZerosInt(n \div 2)
RECURSIVE TrailingZeroDigits(_)
TrailingZeroDigits(b) ==
    IF b[Len(b)] # 0 THEN 0 ELSE 1 + TrailingZeroDigits(SubSeq(b, 1, Len(b) - 1))
TrailingZeros(b) ==
    LET z == TrailingZeroDigits(b)
    IN  DigitBits * z + TrailingZerosInt(b[Len(b) - z])

\* The same value with an odd integer.
Canon(x) ==
    IF x.m = << >> THEN [m |-> << >>, e |-> 0]
    ELSE [m |-> ShiftRight(x.m, TrailingZeros(x.m))[1], e |-> x.e + TrailingZeros(x.m)]

\* The integer of x at the smaller exponent e.
AtExp(x, e) == ShiftLeft(x.m, x.e - e)

RECURSIVE LexLe(_, _, _)
LexLe(a, b, i) ==
    IF i > Len(a) THEN TRUE
    ELSE IF a[i] # b[i] THEN a[i] < b[i]
    ELSE LexLe(a, b, i + 1)

\* exact sum and exact comparison
BigAdd(x, y) ==
    LET e == IF x.m = << >> THEN y.e ELSE IF y.m = << >> THEN x.e ELSE Min(x.e, y.e)
    IN  Canon([m |-> AddDigits(AtExp(x, e), AtExp(y, e)), e |-> e])
BigLe(x, y) ==
    LET e == IF x.m = << >> THEN y.e ELSE IF y.m = << >> THEN x.e ELSE Min(x.e, y.e)
        a == AtExp(x, e)
        b == AtExp(y, e)
        k == Max(Len(a), Len(b))
    IN  LexLe(Pad(a, k), Pad(b, k), 1)

\* x rounded to a float.
RoundFloat(x, sticky) ==
    LET drop == Max(BitLen(x.m) - MantBits, 0)
    IN  Canon([m |-> RoundShift(x.m, drop, sticky), e |-> x.e + drop])

FloatOfInt(n) == Canon([m |-> Digits(n), e |-> 0])
\* k / 2^p as a float, for a small k
FloatOfDyadic(k, p) == Canon([m |-> Digits(k), e |-> -p])

\* a / b for ints a >= 0, 0 < b < Base (true division, correctly rounded)
FloatDivInt(a, b) ==
    LET q == DivSmall(Digits(a) \o Zeros(DivPlaces \div DigitBits), b)
    IN  RoundFloat([m |-> q[1], e |-> -DivPlaces], q[2] # 0)

FloatMul(x, y) == RoundFloat([m |-> MulDigits(x.m, y.m), e |-> x.e + y.e], FALSE)

FloatAdd(x, y) == RoundFloat(BigAdd(x, y), FALSE)

\* Python's round(x, 1), as the number of tenths: the tenth nearest to the
\* exact value of the float x, ties to the even tenth.
RoundTenths(x) ==
    LET t == MulSmall(x.m, 10)
    IN  IF x.e >= 0 THEN IntOf(ShiftLeft(t, x.e))
        ELSE IntOf(RoundShift(t, -x.e, FALSE))

-----------------------------------------------------------------------------
(* Shrinkage of a mean toward the league average                            *)

\* Means and league averages tried are k/4 for k in 1..MaxMean; sample
\* counts are 0..MaxN and shrinkage parameters 0..MaxM and the default.
MaxMean == 4
MaxN == 4
MaxM == 4
ShrinkDefaultM == 250

ShrinkInputs ==
    [mean_aqr : 1..MaxMean, n : 0..MaxN, league_avg : 1..MaxMean,
     m : (0..MaxM) \cup {ShrinkDefaultM}]

Quarter(k) == FloatOfDyadic(k, 2)
NoFloat == [m |-> << >>, e |-> 0]

\* shrink_aqr with the second weight taken over n + m + 1.
shrink_aqr_WrongWeight(mean_aqr, n, league_avg, m) ==
    IF n + m = 0 THEN [err |-> "ZeroDivisionError", val |-> NoFloat]
    ELSE [err |-> "",
          val |-> FloatAdd(FloatMul(FloatDivInt(n, n + m), mean_aqr),
                           FloatMul(FloatDivInt(m, n + m + 1), league_avg))]

\* (n / (n + m)) * mean_aqr + (m / (n + m)) * league_avg, in floats; the
\* division raises when n + m is 0.
shrink_aqr(mean_aqr, n, league_avg, m) ==
    IF n + m = 0 THEN [err |-> "ZeroDivisionError", val |-> NoFloat]
    ELSE [err |-> "",
          val |-> FloatAdd(FloatMul(FloatDivInt(n, n + m), mean_aqr),
                           FloatMul(FloatDivInt(m, n + m), league_avg))]

CallShrink ==
    /\ ret = NoCall
    /\ LET r == shrink_aqr(Quarter(input.mean_aqr), input.n, Quarter(input.league_avg), input.m)
       IN  ret' = [op |-> "shrink_aqr", mean_aqr |-> Quarter(input.mean_aqr), n |-> input.n,
                   league_avg |-> Quarter(input.league_avg), m |-> input.m,
                   err |-> r.err, val |-> r.val]
    /\ UNCHANGED <<pc, local, files, SHOOTER_CACHE, SKILL_CACHE, input, prev, db, AQR_STATS_CACHE>>

InitShrink == InitPure(ShrinkInputs)

NextShrink == CallShrink

SpecShrink == InitShrink /\ [][NextShrink]_vars

IsShrinkCall == ret.op = "shrink_aqr"

\* x * 2^k
Scaled(x, k) == IF x.m = << >> THEN x ELSE [m |-> x.m, e |-> x.e + k]
\* |a - b| <= d
Within(a, b, d) == BigLe(a, BigAdd(b, d)) /\ BigLe(b, BigAdd(a, d))

\* C10 as stated: shrink_aqr(x, n, x, m) equals x for every x, n > 0, m >= 0.
C10_ShrinkToSelfExact ==
    (IsShrinkCall /\ ret.mean_aqr = ret.league_avg /\ ret.n > 0)
        => (ret.err = "" /\ ret.val = ret.mean_aqr)

\* C10 (amended): for n > 0 and m >= 0, shrink_aqr(x, n, x, m) raises nothing
\* and equals x up to the rounding of the float operations: it differs from
\* x by at most x * 2^-51, and is exactly x when m = 0.
C10_ShrinkToSelfWithinRounding ==
    (IsShrinkCall /\ ret.mean_aqr = ret.league_avg /\ ret.n > 0)
        => /\ ret.err = ""
           /\ Within(ret.val, ret.mean_aqr, Scaled(ret.mean_aqr, -51))
           /\ ret.m = 0 => ret.val = ret.mean_aqr

\* C10 witness: a mean was shrunk toward itself with n > 0 and m > 0 and the
\* result is not the float x, yet within the rounding bound.
C10_Witness ==
    /\ IsShrinkCall
    /\ ret.mean_aqr = ret.league_avg
    /\ ret.n > 0
    /\ ret.m > 0
    /\ ret.err = ""
    /\ ret.val # ret.mean_aqr
    /\ Within(ret.val, ret.mean_aqr, Scaled(ret.mean_aqr, -51))

-----------------------------------------------------------------------------
(* Population statistics and normalisation to the 1-100 scale              *)
(*                                                                         *)
(* An assisted shot of the table is what scoring it gives: Some(v) for the *)
(* raw AQR v, None when compute_single_assist_AQR_raw raises.  Raw values  *)
(* are whole numbers; normalisation only compares them.  A normalised      *)
(* value is held in tenths, so 75.2 is 752.                                *)

Seasons == {"2024-25"}

\* Largest number of assisted shots of a season, and largest raw value.
MaxPop == 4
MaxRaw == 2

Scores == {None} \cup {Some(v) : v \in 1..MaxRaw}
ScoreKey(s) == IF s = None THEN 0 ELSE Val(s)

\* The tables tried: one order per multiset of rows, the descending one.
Populations ==
    {p \in UNION {[1..k -> Scores] : k \in 0..MaxPop} :
        \A i \in 1..(Len(p) - 1) : ScoreKey(p[i]) >= ScoreKey(p[i + 1])}

\* Raw values handed to normalize_aqr: below, among and above the stored ones.
Raws == 0..(MaxRaw + 1)

fetch_all_assists(season) == db[season]

RECURSIVE Insert(_, _)
Insert(v, s) ==
    IF s = << >> THEN <<v>>
    ELSE IF v < Head(s) THEN <<v>> \o s
    ELSE <<Head(s)>> \o Insert(v, Tail(s))

RECURSIVE sorted(_)
sorted(s) == IF s = << >> THEN << >> ELSE Insert(Head(s), sorted(Tail(s)))

\* The loop of compute_aqr_statistics: the values of the shots that score.
RECURSIVE all_aqrs(_)
all_aqrs(assists) ==
    IF assists = << >> THEN << >>
    ELSE IF Head(assists) = None THEN all_aqrs(Tail(assists))
    ELSE <<Val(Head(assists))>> \o all_aqrs(Tail(assists))

NoStats == [all_values |-> << >>]

CacheWith(season, stats) ==
    [s \in (DOMAIN AQR_STATS_CACHE) \cup {season} |->
        IF s = season THEN stats ELSE AQR_STATS_CACHE[s]]

\* compute_aqr_statistics accepting a single value.
compute_aqr_statistics_StoresOne(season, force_refresh) ==
    IF season \in DOMAIN AQR_STATS_CACHE /\ ~force_refresh
    THEN [err |-> "", stats |-> AQR_STATS_CACHE[season], cache |-> AQR_STATS_CACHE,
          fetched |-> FALSE]
    ELSE LET values == all_aqrs(fetch_all_assists(season))
         IN  IF Len(values) < 1
             THEN [err |-> "StatisticsError", stats |-> NoStats, cache |-> AQR_STATS_CACHE,
                   fetched |-> TRUE]
             ELSE LET stats == [all_values |-> sorted(values)]
                  IN  [err |-> "", stats |-> stats, cache |-> CacheWith(season, stats),
                       fetched |-> TRUE]

\* compute_aqr_statistics rebuilding on every call.
compute_aqr_statistics_AlwaysBuilds(season, force_refresh) ==
    LET values == all_aqrs(fetch_all_assists(season))
    IN  IF Len(values) < 2
        THEN [err |-> "StatisticsError", stats |-> NoStats, cache |-> AQR_STATS_CACHE,
              fetched |-> TRUE]
        ELSE LET stats == [all_values |-> sorted(values)]
             IN  [err |-> "", stats |-> stats, cache |-> CacheWith(season, stats),
                  fetched |-> TRUE]

\* What a call returns or raises, the cache it leaves, and whether it fetched
\* the assists of the season.  statistics.mean and statistics.stdev raise
\* StatisticsError on fewer than two values, before anything is stored.
compute_aqr_statistics(season, force_refresh) ==
    IF season \in DOMAIN AQR_STATS_CACHE /\ ~force_refresh
    THEN [err |-> "", stats |-> AQR_STATS_CACHE[season], cache |-> AQR_STATS_CACHE,
          fetched |-> FALSE]
    ELSE LET values == all_aqrs(fetch_all_assists(season))
         IN  IF Len(values) < 2
             THEN [err |-> "StatisticsError", stats |-> NoStats, cache |-> AQR_STATS_CACHE,
                   fetched |-> TRUE]
             ELSE LET stats == [all_values |-> sorted(values)]
                  IN  [err |-> "", stats |-> stats, cache |-> CacheWith(season, stats),
                       fetched |-> TRUE]

\* rank = sum(1 for x in all_values if x < raw_aqr)
rank(all_values, raw_aqr) == Cardinality({i \in DOMAIN all_values : all_values[i] < raw_aqr})

\* normalize_aqr without the "+ 1" of the rescaling.
normalize_aqr_NoOffset(raw_aqr, season) ==
    LET s == compute_aqr_statistics(season, FALSE)
        all_values == s.stats.all_values
    IN  IF s.err # ""
        THEN [err |-> s.err, val |-> 0, all_values |-> << >>, cache |-> s.cache,
              fetched |-> s.fetched]
        ELSE [err |-> "",
              val |-> RoundTenths(FloatMul(FloatDivInt(rank(all_values, raw_aqr), Len(all_values)),
                                           FloatOfInt(99))),
              all_values |-> all_values, cache |-> s.cache,
              fetched |-> s.fetched]

\* normalize_aqr counting the stored values less than or equal to the input.
normalize_aqr_CountEqual(raw_aqr, season) ==
    LET s == compute_aqr_statistics(season, FALSE)
        all_values == s.stats.all_values
        le == Cardinality({i \in DOMAIN all_values : all_values[i] <= raw_aqr})
    IN  IF s.err # ""
        THEN [err |-> s.err, val |-> 0, all_values |-> << >>, cache |-> s.cache,
              fetched |-> s.fetched]
        ELSE [err |-> "",
              val |-> RoundTenths(FloatAdd(FloatMul(FloatDivInt(le, Len(all_values)),
                                                    FloatOfInt(99)),
                                           FloatOfInt(1))),
              all_values |-> all_values, cache |-> s.cache,
              fetched |-> s.fetched]

\* normalize_aqr counting the stored values greater than the input.
normalize_aqr_CountGreater(raw_aqr, season) ==
    LET s == compute_aqr_statistics(season, FALSE)
        all_values == s.stats.all_values
        gt == Cardinality({i \in DOMAIN all_values : all_values[i] > raw_aqr})
    IN  IF s.err # ""
        THEN [err |-> s.err, val |-> 0, all_values |-> << >>, cache |-> s.cache,
              fetched |-> s.fetched]
        ELSE [err |-> "",
              val |-> RoundTenths(FloatAdd(FloatMul(FloatDivInt(gt, Len(all_values)),
                                                    FloatOfInt(99)),
                                           FloatOfInt(1))),
              all_values |-> all_values, cache |-> s.cache,
              fetched |-> s.fetched]

\* round((rank / len(all_values)) * 99 + 1, 1) over the stats of the season,
\* which are built (and cached) by the call when they are not cached yet.
normalize_aqr(raw_aqr, season) ==
    LET s == compute_aqr_statistics(season, FALSE)
        all_values == s.stats.all_values
    IN  IF s.err # ""
        THEN [err |-> s.err, val |-> 0, all_values |-> << >>, cache |-> s.cache,
              fetched |-> s.fetched]
        ELSE [err |-> "",
              val |-> RoundTenths(FloatAdd(FloatMul(FloatDivInt(rank(all_values, raw_aqr),
                                                                Len(all_values)),
                                                    FloatOfInt(99)),
                                           FloatOfInt(1))),
              all_values |-> all_values, cache |-> s.cache,
              fetched |-> s.fetched]

ComputeStatistics ==
    \E season \in Seasons, force_refresh \in BOOLEAN :
        LET r == compute_aqr_statistics(season, force_refresh)
        IN  /\ ret' = [op |-> "compute_aqr_statistics", season |-> season,
                       force_refresh |-> force_refresh, err |-> r.err,
                       all_values |-> r.stats.all_values, fetched |-> r.fetched]
            /\ prev' = ret
            /\ AQR_STATS_CACHE' = r.cache
            /\ UNCHANGED <<pc, local, files, SHOOTER_CACHE, SKILL_CACHE, input, db>>

Normalize ==
    \E raw_aqr \in Raws, season \in Seasons :
        LET r == normalize_aqr(raw_aqr, season)
        IN  /\ ret' = [op |-> "normalize_aqr", raw_aqr |-> raw_aqr, season |-> season,
                       err |-> r.err, val |-> r.val, all_values |-> r.all_values,
                       fetched |-> r.fetched]
            /\ prev' = ret
            /\ AQR_STATS_CACHE' = r.cache
            /\ UNCHANGED <<pc, local, files, SHOOTER_CACHE, SKILL_CACHE, input, db>>

InitNorm ==
    /\ input = << >>
    /\ ret = NoCall
    /\ prev = NoCall
    /\ db \in [Seasons -> Populations]
    /\ AQR_STATS_CACHE = << >>
    /\ SHOOTER_CACHE = << >>
    /\ SKILL_CACHE = << >>
    /\ pc = << >>
    /\ local = << >>
    /\ files = << >>

NextNorm ==
    \/ ComputeStatistics
    \/ Normalize

SpecNorm == InitNorm /\ [][NextNorm]_vars

IsNormalized(r) == r.op = "normalize_aqr" /\ r.err = ""

\* How many stored values are below, at most, and equal to v.
Below(all_values, v) == Cardinality({i \in DOMAIN all_values : all_values[i] < v})
Largest(all_values) == all_values[Len(all_values)]
Smallest(all_values) == all_values[1]

\* val (in tenths) is a tenth nearest to (k / n) * 99 + 1
NearestTenth(val, k, n) == 2 * Abs(n * val - 990 * k - 10 * n) <= n

\* C1: over a population of at least 2 stored values normalize_aqr returns,
\* for every raw input, a value in [1, 100]: exactly 1 when no stored value is
\* strictly smaller than the input, exactly 100 when every stored value is,
\* and in general (count strictly smaller / total) * 99 + 1 rounded to one
\* decimal.  A season with at least 2 scorable assists has such a population.
C1_NormalizedInRange ==
    ret.op = "normalize_aqr" =>
        /\ Len(all_aqrs(db[ret.season])) >= 2 => ret.err = ""
        /\ ret.err = "" =>
            LET n == Len(ret.all_values)
                k == Below(ret.all_values, ret.raw_aqr)
            IN  /\ n >= 2
                /\ ret.val >= 10 /\ ret.val <= 1000
                /\ k = 0 => ret.val = 10
                /\ k = n => ret.val = 1000
                /\ NearestTenth(ret.val, k, n)

\* C1 witness: an input above every stored value was normalised to 100.0.
C1_Witness ==
    /\ IsNormalized(ret)
    /\ Below(ret.all_values, ret.raw_aqr) = Len(ret.all_values)
    /\ ret.val = 1000

\* C2 as stated: the largest stored value is normalised to 100.0 and the
\* smallest to 1.0, also when values are tied.
C2_MemberExtremes ==
    IsNormalized(ret) =>
        /\ ret.raw_aqr = Largest(ret.all_values) => ret.val = 1000
        /\ ret.raw_aqr = Smallest(ret.all_values) => ret.val = 10

\* C2 (amended): the smallest stored value is normalised to 1.0, also when
\* it is tied; the largest stored value is normalised to
\* ((N - t) / N) * 99 + 1 rounded to one decimal, N being the number of stored
\* values and t the number of them equal to the largest, and hence to 100.0
\* only when 99 * t / N rounds away; 100.0 is otherwise reserved to inputs
\* above every stored value.  Over [1, 1, 1, 2], 2 gives 75.2 and 1 gives 1.0.
C2_MemberExtremesByRank ==
    IsNormalized(ret) =>
        LET n == Len(ret.all_values)
            k == Below(ret.all_values, ret.raw_aqr)
        IN  /\ ret.raw_aqr = Smallest(ret.all_values) => ret.val = 10
            /\ ret.raw_aqr = Largest(ret.all_values) =>
                  /\ k < n
                  /\ NearestTenth(ret.val, k, n)
                  /\ ret.val = 1000 => 1980 * (n - k) <= n
            /\ (ret.all_values = <<1, 1, 1, 2>> /\ ret.raw_aqr = 2) => ret.val = 752
            /\ (ret.all_values = <<1, 1, 1, 2>> /\ ret.raw_aqr = 1) => ret.val = 10

\* C2 witness: 2 was normalised over the population [1, 1, 1, 2], to 75.2.
C2_Witness ==
    /\ IsNormalized(ret)
    /\ ret.all_values = <<1, 1, 1, 2>>
    /\ ret.raw_aqr = 2
    /\ ret.val = 752

\* C3: two successive normalisations over the same stats, with no rebuild
\* between them, are ordered as their inputs: a <= b gives
\* normalize(a) <= normalize(b).
C3_NormalizeMonotone ==
    (IsNormalized(prev) /\ IsNormalized(ret) /\ prev.season = ret.season
        /\ prev.all_values = ret.all_values /\ prev.raw_aqr <= ret.raw_aqr)
        => prev.val <= ret.val

\* C3 witness: a larger input was normalised right after a smaller one over
\* the same stats, to a strictly larger value.
C3_Witness ==
    /\ IsNormalized(prev)
    /\ IsNormalized(ret)
    /\ prev.all_values = ret.all_values
    /\ prev.raw_aqr < ret.raw_aqr
    /\ prev.val < ret.val

\* C11: with zero samples shrink_aqr raises nothing and returns the league
\* average, for every mean, every league average and every constant m.
C11_ZeroSamplesGiveLeagueAverage ==
    (IsShrinkCall /\ ret.n = 0) => (ret.err = "" /\ ret.val = ret.league_avg)

-----------------------------------------------------------------------------
(* Python float arithmetic, continued: division of floats, and signed      *)
(* values.  A signed float is [neg |-> BOOLEAN, abs |-> a float as above]; *)
(* zero is not negative.                                                   *)

\* digits of (integer a) - (integer b), for a >= b
RECURSIVE SubFrom(_, _, _, _, _)
SubFrom(a, b, i, acc, borrow) ==
    IF i = 0 THEN Strip(acc)
    ELSE LET d == a[i] - b[i] - borrow
         IN  SubFrom(a, b, i - 1, <<(d + Base) % Base>> \o acc, IF d < 0 THEN 1 ELSE 0)
SubDigits(a, b) ==
    LET k == Max(Len(a), Len(b))
    IN  SubFrom(Pad(a, k), Pad(b, k), k, << >>, 0)

\* (integer a) <= (integer b)
DigitsLe(a, b) ==
    LET k == Max(Len(a), Len(b))
    IN  LexLe(Pad(a, k), Pad(b, k), 1)

\* The largest q <= qhat with q * (integer b) <= (integer r).
RECURSIVE FixDigit(_, _, _)
FixDigit(r, b, qhat) ==
    IF DigitsLe(MulSmall(b, qhat), r) THEN qhat ELSE FixDigit(r, b, qhat - 1)

\* One quotient digit: floor(r / b), for r < b * Base and the leading digit
\* of b at least Base / 2.
QuotDigit(r, b) ==
    IF Len(r) < Len(b) THEN 0
    ELSE IF Len(r) = Len(b) THEN FixDigit(r, b, r[1] \div b[1])
    ELSE FixDigit(r, b, Min(Base - 1, (r[1] * Base + r[2]) \div b[1]))

\* <<quotient digits, remainder digits>> of (integer a) by (integer b), the
\* leading digit of b at least Base / 2.
RECURSIVE LongDivFrom(_, _, _, _, _)
LongDivFrom(a, b, i, q, r) ==
    IF i > Len(a) THEN <<Strip(q), r>>
    ELSE LET r1 == Strip(r \o <<a[i]>>)
             d == QuotDigit(r1, b)
         IN  LongDivFrom(a, b, i + 1, Append(q, d), SubDigits(r1, MulSmall(b, d)))

\* <<floor(a / b), whether the division left a remainder>>, for b # 0
DivDigits(a, b) ==
    LET s == DigitBits - BitLenInt(b[1])
        qr == LongDivFrom(ShiftLeft(a, s), ShiftLeft(b, s), 1, << >>, << >>)
    IN  <<qr[1], qr[2] # << >>>>

\* x / y for floats, y # 0 (true division, correctly rounded)
FloatDiv(x, y) ==
    IF x.m = << >> THEN x
    ELSE LET k == Max(0, MantBits + 3 + BitLen(y.m) - BitLen(x.m))
             q == DivDigits(ShiftLeft(x.m, k), y.m)
         IN  RoundFloat([m |-> q[1], e |-> x.e - y.e - k], q[2])

\* exact x - y, for x >= y
BigSub(x, y) ==
    LET e == IF x.m = << >> THEN y.e ELSE IF y.m = << >> THEN x.e ELSE Min(x.e, y.e)
    IN  Canon([m |-> SubDigits(AtExp(x, e), AtExp(y, e)), e |-> e])

Signed(neg, x) == [neg |-> neg /\ x.m # << >>, abs |-> x]
SFloat(x) == Signed(FALSE, x)
SNeg(x) == Signed(~x.neg, x.abs)
SAdd(x, y) ==
    IF x.neg = y.neg THEN Signed(x.neg, FloatAdd(x.abs, y.abs))
    ELSE IF BigLe(y.abs, x.abs) THEN Signed(x.neg, RoundFloat(BigSub(x.abs, y.abs), FALSE))
    ELSE Signed(y.neg, RoundFloat(BigSub(y.abs, x.abs), FALSE))
SSub(x, y) == SAdd(x, SNeg(y))
SMul(x, y) == Signed(x.neg # y.neg, FloatMul(x.abs, y.abs))
SDiv(x, y) == Signed(x.neg # y.neg, FloatDiv(x.abs, y.abs))
SLe(x, y) ==
    IF x.neg /\ ~y.neg THEN TRUE
    ELSE IF ~x.neg /\ y.neg THEN FALSE
    ELSE IF x.neg THEN BigLe(y.abs, x.abs)
    ELSE BigLe(x.abs, y.abs)
SLt(x, y) == SLe(x, y) /\ x # y

\* The float of the decimal literal n / 10^k (n an integer), e.g. 1.25.
Decimal(n, k) == Signed(n < 0, FloatDivInt(Abs(n), 10 ^ k))

-----------------------------------------------------------------------------
(* The factor engine and the raw score (src/AQR_CLI_DB.py)                 *)
(*                                                                         *)
(* A shot to score carries its label, its shot quality in thousandths      *)
(* (None when missing), its opponent, period, seconds left in the period   *)
(* (None when missing) and score margin (None when missing).  A relative   *)
(* defensive rating is in tenths of a point.  Factors are signed floats.   *)
(* The table REL_DEF is loaded when the module is imported; the table a    *)
(* run works with is part of its input.                                    *)

Teams == {"BOS", "WAS"}

\* Largest relative rating tried, in tenths of a point.
MaxRel == 20
RelVals == (-MaxRel)..MaxRel

DefenseKeys == Seasons \X Teams
DefenseTables == UNION {[D -> RelVals] : D \in SUBSET DefenseKeys}

REL_DEF == input.REL_DEF

One == SFloat(FloatOfInt(1))
NoValue == SFloat(NoFloat)

LEAGUE_AVG_SQ(zone) ==
    CASE zone = "AtRim" -> Decimal(665, 3)
      [] zone = "ShortMidRange" -> Decimal(442, 3)
      [] zone = "LongMidRange" -> Decimal(413, 3)
      [] zone = "Arc3" -> Decimal(351, 3)
      [] zone = "Corner3" -> Decimal(388, 3)

SMin(x, y) == IF SLe(x, y) THEN x ELSE y

\* min(0.5 + 0.5 * (sq / baseline), 1.25); LEAGUE_AVG_SQ[zone] raises KeyError
\* for a zone without baseline, None / baseline raises TypeError.
get_creation_boost(shot) ==
    LET zone == get_zone(shot)
        sq == shot.shot_quality
    IN  IF zone \notin Zones THEN [err |-> "KeyError", val |-> NoValue]
        ELSE IF sq = None THEN [err |-> "TypeError", val |-> NoValue]
        ELSE [err |-> "",
              val |-> SMin(SAdd(Decimal(5, 1),
                                SMul(Decimal(5, 1),
                                     SDiv(Decimal(Val(sq), 3), LEAGUE_AVG_SQ(zone)))),
                           Decimal(125, 2))]

\* REL_DEF.get((season, opponent_team), 0), as a number
RelOf(season, opponent_team) ==
    IF <<season, opponent_team>> \in DOMAIN REL_DEF
    THEN Decimal(REL_DEF[<<season, opponent_team>>], 1)
    ELSE SFloat(FloatOfInt(0))

\* get_defense_factor with the subtraction turned around.
get_defense_factor_Reversed(season, opponent_team, league_avg) ==
    LET rel == RelOf(season, opponent_team)
        opp_rating == SAdd(SFloat(FloatOfInt(league_avg)), rel)
        diff == SSub(opp_rating, SFloat(FloatOfInt(league_avg)))
    IN  SAdd(One, SDiv(diff, SFloat(FloatOfInt(100))))

get_defense_factor(season, opponent_team, league_avg) ==
    LET rel == RelOf(season, opponent_team)
        opp_rating == SAdd(SFloat(FloatOfInt(league_avg)), rel)
        diff == SSub(SFloat(FloatOfInt(league_avg)), opp_rating)
    IN  SAdd(One, SDiv(diff, SFloat(FloatOfInt(100))))

LeagueAvgRating == 113

\* x or d: d when x is None or 0
OrElse(x, d) == IF x = None \/ x = Some(0) THEN d ELSE Val(x)

\* The if-chain of get_clutch_factor, in the order it is checked: the time
\* limit, the margin limit (None when the margin is not looked at) and the
\* factor returned.
CLUTCH_THRESHOLDS ==
    << [t |-> 5, m |-> Some(3), bonus |-> Decimal(12, 1)],
       [t |-> 10, m |-> Some(3), bonus |-> Decimal(115, 2)],
       [t |-> 20, m |-> Some(4), bonus |-> Decimal(1, 0)],
       [t |-> 60, m |-> Some(6), bonus |-> Decimal(105, 2)],
       [t |-> 120, m |-> Some(8), bonus |-> Decimal(1025, 3)] >>

CLUTCH_THRESHOLDS_COMMAND_LINE ==
    << [t |-> 120, m |-> None, bonus |-> Decimal(125, 2)],
       [t |-> 300, m |-> Some(5), bonus |-> Decimal(115, 2)] >>

\* The chain from its i-th condition on, for a period >= 4: the first
\* condition that holds returns; comparing None raises TypeError.
RECURSIVE FirstMatch(_, _, _, _)
FirstMatch(table, t, m, i) ==
    IF i > Len(table) THEN [err |-> "", val |-> One]
    ELSE IF t = None THEN [err |-> "TypeError", val |-> NoValue]
    ELSE IF Val(t) > table[i].t THEN FirstMatch(table, t, m, i + 1)
    ELSE IF table[i].m = None THEN [err |-> "", val |-> table[i].bonus]
    ELSE IF m = None THEN [err |-> "TypeError", val |-> NoValue]
    ELSE IF Abs(Val(m)) <= Val(table[i].m) THEN [err |-> "", val |-> table[i].bonus]
    ELSE FirstMatch(table, t, m, i + 1)

ClutchPeriod == 4
FullQuarter == 720

\* src/AQR_CLI_DB.py: a missing or zero time counts as 720 seconds, a missing
\* margin as 0.
get_clutch_factor(shot) ==
    LET p == shot.period
        t == OrElse(shot.shot_time, FullQuarter)
        m == OrElse(shot.score_margin, 0)
    IN  IF p >= ClutchPeriod THEN FirstMatch(CLUTCH_THRESHOLDS, Some(t), Some(m), 1)
        ELSE [err |-> "", val |-> One]

\* src/AQR_COMMAND_LINE.py and src/AQR.py: no defaults.
get_clutch_factor_COMMAND_LINE(shot) ==
    LET p == shot.period
        t == shot.shot_time
        m == shot.score_margin
    IN  IF p >= ClutchPeriod THEN FirstMatch(CLUTCH_THRESHOLDS_COMMAND_LINE, t, m, 1)
        ELSE [err |-> "", val |-> One]

\* Python's `zone in "ShortMidRange"` is a substring test; of the labels a
\* shot can carry only the whole name is a substring, and None raises.
get_distance_factor(shot) ==
    LET zone == get_zone(shot)
    IN  IF zone = "AtRim" THEN [err |-> "", val |-> Decimal(99, 2)]
        ELSE IF zone = "None" THEN [err |-> "TypeError", val |-> NoValue]
        ELSE IF zone = "ShortMidRange" THEN [err |-> "", val |-> Decimal(99, 2)]
        ELSE IF zone = "LongMidRange" THEN [err |-> "", val |-> Decimal(97, 2)]
        ELSE [err |-> "", val |-> One]

\* skills.get(zone, 1.0)
SkillOf(skills, zone) == IF zone \in DOMAIN skills THEN skills[zone] ELSE One

\* compute_AQR_for_shot_raw without the distance factor.
compute_AQR_for_shot_raw_NoDistance(shot, skills, season) ==
    LET zone == get_zone(shot)
        creation == get_creation_boost(shot)
        skill == SkillOf(skills, zone)
        defense == get_defense_factor(season, shot.opponent, LeagueAvgRating)
        clutch == get_clutch_factor(shot)
        distance == get_distance_factor(shot)
    IN  IF creation.err # "" THEN creation
        ELSE IF clutch.err # "" THEN clutch
        ELSE IF distance.err # "" THEN distance
        ELSE [err |-> "",
              val |-> SMul(SMul(SMul(creation.val, skill), defense), clutch.val)]

\* creation * skill * defense * clutch * distance, multiplied from the left;
\* an exception of a factor function leaves the function.
compute_AQR_for_shot_raw(shot, skills, season) ==
    LET zone == get_zone(shot)
        creation == get_creation_boost(shot)
        skill == SkillOf(skills, zone)
        defense == get_defense_factor(season, shot.opponent, LeagueAvgRating)
        clutch == get_clutch_factor(shot)
        distance == get_distance_factor(shot)
    IN  IF creation.err # "" THEN creation
        ELSE IF clutch.err # "" THEN clutch
        ELSE IF distance.err # "" THEN distance
        ELSE [err |-> "",
              val |-> SMul(SMul(SMul(SMul(creation.val, skill), defense), clutch.val),
                           distance.val)]

\* Shots, profiles and tables the raw score is tried on.
ShotQualities == {None, Some(388), Some(665), Some(970)}
RawShots ==
    [shot_type : Labels, shot_quality : ShotQualities, opponent : Teams,
     period : {2, 4}, shot_time : {None, Some(5), Some(100)},
     score_margin : {None, Some(0), Some(7)}]
Profiles == {[z \in D |-> Decimal(v, 1)] : D \in {Zones, {}}, v \in {5, 10, 11}}
RawTables ==
    {t \in DefenseTables :
        \A k \in DOMAIN t : k[2] = "BOS" /\ t[k] \in {0, MaxRel}}

RawInputs == [shot : RawShots, skills : Profiles, season : Seasons, REL_DEF : RawTables]

CallRaw ==
    /\ ret = NoCall
    /\ LET r == compute_AQR_for_shot_raw(input.shot, input.skills, input.season)
       IN  ret' = [op |-> "compute_AQR_for_shot_raw", shot |-> input.shot,
                   skills |-> input.skills, season |-> input.season,
                   err |-> r.err, val |-> r.val]
    /\ UNCHANGED <<pc, local, files, SHOOTER_CACHE, SKILL_CACHE, input, prev, db, AQR_STATS_CACHE>>

InitRaw == InitPure(RawInputs)

NextRaw == CallRaw

SpecRaw == InitRaw /\ [][NextRaw]_vars

IsRawCall == ret.op = "compute_AQR_for_shot_raw"

\* The shot of C12: labelled Corner3, shot quality the Corner3 baseline,
\* opponent rated 0 or not rated, period 2, Corner3 skill 1.0.
NeutralShot(shot, skills, season) ==
    /\ shot.shot_type = "Corner3"
    /\ shot.shot_quality = Some(388)
    /\ RelOf(season, shot.opponent) = SFloat(FloatOfInt(0))
    /\ shot.period = 2
    /\ SkillOf(skills, "Corner3") = One

\* C12: when compute_AQR_for_shot_raw returns, it returns the product
\* creation * skill[zone] * defense * clutch * distance of the five factors
\* of the shot; and the neutral shot (Corner3, shot quality at the baseline,
\* opponent rating 0 or none, period 2, Corner3 skill 1.0) scores exactly 1.0.
C12_RawIsProduct ==
    IsRawCall =>
        /\ ret.err = "" =>
             ret.val = SMul(SMul(SMul(SMul(get_creation_boost(ret.shot).val,
                                           SkillOf(ret.skills, get_zone(ret.shot))),
                                      get_defense_factor(ret.season, ret.shot.opponent,
                                                         LeagueAvgRating)),
                                 get_clutch_factor(ret.shot).val),
                            get_distance_factor(ret.shot).val)
        /\ NeutralShot(ret.shot, ret.skills, ret.season) => (ret.err = "" /\ ret.val = One)

\* C12 witness: the neutral shot was scored, and scored 1.0.
C12_Witness ==
    /\ IsRawCall
    /\ NeutralShot(ret.shot, ret.skills, ret.season)
    /\ ret.err = ""
    /\ ret.val = One

-----------------------------------------------------------------------------
(* The defense factor on its own                                           *)

DefenseInputs == [REL_DEF : DefenseTables]

CallDefense ==
    \E season \in Seasons, opponent_team \in Teams :
        /\ ret' = [op |-> "get_defense_factor", season |-> season,
                   opponent_team |-> opponent_team,
                   rated |-> <<season, opponent_team>> \in DOMAIN REL_DEF,
                   rel |-> IF <<season, opponent_team>> \in DOMAIN REL_DEF
                           THEN REL_DEF[<<season, opponent_team>>] ELSE 0,
                   val |-> get_defense_factor(season, opponent_team, LeagueAvgRating)]
        /\ prev' = ret
        /\ UNCHANGED <<pc, local, files, SHOOTER_CACHE, SKILL_CACHE, input, db, AQR_STATS_CACHE>>

InitDefense == InitPure(DefenseInputs)

NextDefense == CallDefense

SpecDefense == InitDefense /\ [][NextDefense]_vars

IsDefenseCall(r) == r.op = "get_defense_factor"

\* C13 as stated: of two rated opponents the one with the larger relative
\* rating gets the strictly larger factor, and an opponent missing from the
\* table gets exactly 1.0.
C13_DefenseIncreasing ==
    /\ (IsDefenseCall(prev) /\ IsDefenseCall(ret) /\ prev.rated /\ ret.rated
            /\ prev.rel < ret.rel) => SLt(prev.val, ret.val)
    /\ (IsDefenseCall(ret) /\ ~ret.rated) => ret.val = One

\* C13 (amended): the factor is 1 - r / 100 and strictly decreasing in the
\* relative rating r: of two rated opponents the one with the larger rating
\* gets the strictly smaller factor, the factor is above 1.0 exactly for
\* negative ratings and below 1.0 exactly for positive ones, and an opponent
\* missing from the table (or rated 0) gets exactly 1.0.
C13_DefenseDecreasing ==
    /\ (IsDefenseCall(prev) /\ IsDefenseCall(ret) /\ prev.rated /\ ret.rated
            /\ prev.rel < ret.rel) => SLt(ret.val, prev.val)
    /\ IsDefenseCall(ret) =>
        /\ ~ret.rated => ret.val = One
        /\ ret.rel = 0 => ret.val = One
        /\ ret.rel < 0 => SLt(One, ret.val)
        /\ ret.rel > 0 => SLt(ret.val, One)
        /\ Within(ret.val.abs, FloatDivInt(1000 - ret.rel, 1000), FloatOfDyadic(1, 50))

\* C13 witness: two rated opponents were looked up one after the other, the
\* second with the larger rating and the strictly smaller factor.
C13_Witness ==
    /\ IsDefenseCall(prev)
    /\ IsDefenseCall(ret)
    /\ prev.rated
    /\ ret.rated
    /\ prev.rel < ret.rel
    /\ SLt(ret.val, prev.val)

-----------------------------------------------------------------------------
(* The clutch factor on its own                                            *)

\* Two shots are drawn at the start and the factor is taken of the first,
\* then of the second.
ClutchTimes == {None} \cup {Some(t) : t \in {0, 5, 15, 30, 60, 121}}
ClutchMargins == {None} \cup {Some(m) : m \in {0, -4, 9}}
ClutchShots == [period : {3, 4}, shot_time : ClutchTimes, score_margin : ClutchMargins]
ClutchInputs == ClutchShots \X ClutchShots

ShotInTurn == IF ret = NoCall THEN input[1] ELSE input[2]

CallClutchDB ==
    /\ prev = NoCall
    /\ LET shot == ShotInTurn
       IN  ret' = [op |-> "get_clutch_factor", variant |-> "DB", shot |-> shot,
                   err |-> get_clutch_factor(shot).err, val |-> get_clutch_factor(shot).val]
    /\ prev' = ret
    /\ UNCHANGED <<pc, local, files, SHOOTER_CACHE, SKILL_CACHE, input, db, AQR_STATS_CACHE>>

CallClutchCommandLine ==
    /\ prev = NoCall
    /\ LET shot == ShotInTurn
       IN  ret' = [op |-> "get_clutch_factor", variant |-> "COMMAND_LINE", shot |-> shot,
                   err |-> get_clutch_factor_COMMAND_LINE(shot).err,
                   val |-> get_clutch_factor_COMMAND_LINE(shot).val]
    /\ prev' = ret
    /\ UNCHANGED <<pc, local, files, SHOOTER_CACHE, SKILL_CACHE, input, db, AQR_STATS_CACHE>>

InitClutch == InitPure(ClutchInputs)

NextClutch ==
    \/ CallClutchDB
    \/ CallClutchCommandLine

SpecClutch == InitClutch /\ [][NextClutch]_vars

IsClutchCall(r) == r.op = "get_clutch_factor" /\ r.err = ""

\* The time remaining and the absolute margin of a shot; only a missing time
\* counts as a full quarter, a missing margin as 0.
TimeRemaining(shot) == IF shot.shot_time = None THEN FullQuarter ELSE Val(shot.shot_time)
AbsMargin(shot) == IF shot.score_margin = None THEN 0 ELSE Abs(Val(shot.score_margin))

StrictlyDecreasing(table) ==
    \A i, j \in DOMAIN table : i < j => SLt(table[j].bonus, table[i].bonus)

\* C14: the bonuses along the check order are strictly decreasing; for two
\* shots in period >= 4 the one with no less time remaining and no smaller
\* absolute margin never gets the larger factor; a shot in a period < 4 gets
\* exactly 1.0.
C14_ClutchOrdered ==
    /\ IsClutchCall(ret) =>
          StrictlyDecreasing(IF ret.variant = "DB" THEN CLUTCH_THRESHOLDS
                             ELSE CLUTCH_THRESHOLDS_COMMAND_LINE)
    /\ (IsClutchCall(prev) /\ IsClutchCall(ret) /\ prev.variant = ret.variant
            /\ prev.shot.period >= 4 /\ ret.shot.period >= 4
            /\ TimeRemaining(prev.shot) <= TimeRemaining(ret.shot)
            /\ AbsMargin(prev.shot) <= AbsMargin(ret.shot))
        => SLe(ret.val, prev.val)
    /\ (IsClutchCall(ret) /\ ret.shot.period < 4) => ret.val = One

-----------------------------------------------------------------------------
(* Building the statistics of a season                                     *)

IsStatisticsCall(r) == r.op = "compute_aqr_statistics"

\* C15: a build over a season with fewer than 2 scorable assists raises an
\* error to the caller and returns no stats, and the step leaves
\* AQR_STATS_CACHE unchanged and without an entry for that season; no cached
\* stats ever hold fewer than 2 values.
C15_TooFewValuesRaise ==
    /\ [](\A s \in DOMAIN AQR_STATS_CACHE : Len(AQR_STATS_CACHE[s].all_values) >= 2)
    /\ [][(IsStatisticsCall(ret') /\ Len(all_aqrs(db[ret'.season])) < 2)
            => /\ ret'.err = "StatisticsError"
               /\ ret'.all_values = << >>
               /\ AQR_STATS_CACHE' = AQR_STATS_CACHE
               /\ ret'.season \notin DOMAIN AQR_STATS_CACHE']_vars

\* C15 witness: a build over a season with a single scorable assist has
\* raised, and the cache has no entry for the season.
C15_Witness ==
    /\ IsStatisticsCall(ret)
    /\ Len(all_aqrs(db[ret.season])) = 1
    /\ ret.err = "StatisticsError"
    /\ ret.season \notin DOMAIN AQR_STATS_CACHE

-----------------------------------------------------------------------------
(* The statistics cache over two seasons, while the shots table grows      *)
(* (src/CONVERT_TO_DB.py inserts rows into the table the program reads).   *)

CacheSeasons == Seasons \cup {"2023-24"}

\* Largest number of assisted shots of a season in the growing table.
MaxRows == 3
CacheScores == {Some(1), Some(2)}
CacheRaws == {2}

\* The row s added to a table, at its place in the descending order.
RECURSIVE InsertRow(_, _)
InsertRow(s, rows) ==
    IF rows = << >> THEN <<s>>
    ELSE IF ScoreKey(s) >= ScoreKey(Head(rows)) THEN <<s>> \o rows
    ELSE <<Head(rows)>> \o InsertRow(s, Tail(rows))

insert_shots ==
    \E season \in CacheSeasons, s \in CacheScores :
        /\ Len(db[season]) < MaxRows
        /\ db' = [db EXCEPT ![season] = InsertRow(s, @)]
        /\ UNCHANGED <<pc, local, files, SHOOTER_CACHE, SKILL_CACHE, input, ret, prev, AQR_STATS_CACHE>>

ComputeStatisticsCached ==
    \E season \in CacheSeasons, force_refresh \in BOOLEAN :
        LET r == compute_aqr_statistics(season, force_refresh)
        IN  /\ ret' = [op |-> "compute_aqr_statistics", season |-> season,
                       force_refresh |-> force_refresh, err |-> r.err,
                       all_values |-> r.stats.all_values, fetched |-> r.fetched]
            /\ AQR_STATS_CACHE' = r.cache
            /\ UNCHANGED <<pc, local, files, SHOOTER_CACHE, SKILL_CACHE, input, prev, db>>

NormalizeCached ==
    \E raw_aqr \in CacheRaws, season \in CacheSeasons :
        LET r == normalize_aqr(raw_aqr, season)
        IN  /\ ret' = [op |-> "normalize_aqr", raw_aqr |-> raw_aqr, season |-> season,
                       err |-> r.err, val |-> r.val, all_values |-> r.all_values,
                       fetched |-> r.fetched]
            /\ AQR_STATS_CACHE' = r.cache
            /\ UNCHANGED <<pc, local, files, SHOOTER_CACHE, SKILL_CACHE, input, prev, db>>

InitCache ==
    /\ input = << >>
    /\ ret = NoCall
    /\ prev = NoCall
    /\ db = [season \in CacheSeasons |-> << >>]
    /\ AQR_STATS_CACHE = << >>
    /\ SHOOTER_CACHE = << >>
    /\ SKILL_CACHE = << >>
    /\ pc = << >>
    /\ local = << >>
    /\ files = << >>

NextCache ==
    \/ insert_shots
    \/ ComputeStatisticsCached
    \/ NormalizeCached

SpecCache == InitCache /\ [][NextCache]_vars

Forced(r) == r.op = "compute_aqr_statistics" /\ r.force_refresh

\* C16: once a season has an entry, a call for it without force_refresh
\* (compute_aqr_statistics itself or the one inside normalize_aqr) returns the
\* cached stats and neither fetches nor recomputes; the assists are fetched
\* only when the season has no entry or on force_refresh; an entry changes
\* only by a call with force_refresh for its season; a call for one season
\* leaves the entries of the others as they are; and rows added to the table
\* change no entry.
C16_BuiltOncePerSeason ==
    [][IF db' # db THEN AQR_STATS_CACHE' = AQR_STATS_CACHE
       ELSE LET s == ret'.season
                cached == s \in DOMAIN AQR_STATS_CACHE
            IN  /\ (cached /\ ~Forced(ret')) =>
                      /\ ~ret'.fetched
                      /\ ret'.err = ""
                      /\ ret'.all_values = AQR_STATS_CACHE[s].all_values
                      /\ AQR_STATS_CACHE' = AQR_STATS_CACHE
                /\ ret'.fetched => (~cached \/ Forced(ret'))
                /\ (cached /\ AQR_STATS_CACHE'[s] # AQR_STATS_CACHE[s]) => Forced(ret')
                /\ \A t \in DOMAIN AQR_STATS_CACHE :
                      t # s => (t \in DOMAIN AQR_STATS_CACHE'
                                /\ AQR_STATS_CACHE'[t] = AQR_STATS_CACHE[t])
                /\ cached => s \in DOMAIN AQR_STATS_CACHE']_vars

\* C16 witness: rows were added to a season after its stats were built, the
\* other season has an entry too, and the last call, made without
\* force_refresh, returned the older cached values without fetching.
C16_Witness ==
    /\ ret.op \in {"compute_aqr_statistics", "normalize_aqr"}
    /\ ~Forced(ret)
    /\ ~ret.fetched
    /\ DOMAIN AQR_STATS_CACHE = CacheSeasons
    /\ ret.all_values = AQR_STATS_CACHE[ret.season].all_values
    /\ ret.all_values # sorted(all_aqrs(db[ret.season]))

-----------------------------------------------------------------------------
(* The skill cache (get_or_compute_skill)                                  *)
(*                                                                         *)
(* Here the shots table holds, per shooter and season, the shooter's shot  *)
(* history of that season.  The program run is the DB variant or the       *)
(* command-line variant, each with its own caches.                         *)

Shooters == {"p1", "p2"}

\* The histories in the table: no shot, or two made shots at the rim.
SeasonHistories == {<<0, 0, 0, 0, 0, 0>>, <<0, 2, 0, 0, 0, 0>>}

SkillTables == [Shooters -> [CacheSeasons -> SeasonHistories]]
SkillCacheInputs == [variant : {"DB", "COMMAND_LINE"}]

fetch_shots_by_player(player_id, season) == db[player_id][season]

With(cache, key, value) ==
    [k \in (DOMAIN cache) \cup {key} |-> IF k = key THEN value ELSE cache[k]]

\* src/AQR_CLI_DB.py: the profile is cached per (shooter, season), the shots
\* fetched per shooter.
get_or_compute_skill(shooter_id, season) ==
    LET key == <<shooter_id, season>>
    IN  IF key \in DOMAIN SKILL_CACHE
        THEN [val |-> SKILL_CACHE[key], shots |-> SHOOTER_CACHE, skills |-> SKILL_CACHE]
        ELSE LET shots == IF shooter_id \notin DOMAIN SHOOTER_CACHE
                          THEN With(SHOOTER_CACHE, shooter_id,
                                    fetch_shots_by_player(shooter_id, season))
                          ELSE SHOOTER_CACHE
                 skills == compute_shooter_skill(shots[shooter_id])
             IN  [val |-> skills, shots |-> shots, skills |-> With(SKILL_CACHE, key, skills)]

\* src/AQR_COMMAND_LINE.py: both caches are keyed by the shooter alone.
get_or_compute_skill_COMMAND_LINE(shooter_id, season) ==
    IF shooter_id \in DOMAIN SKILL_CACHE
    THEN [val |-> SKILL_CACHE[shooter_id], shots |-> SHOOTER_CACHE, skills |-> SKILL_CACHE]
    ELSE LET shots == IF shooter_id \notin DOMAIN SHOOTER_CACHE
                      THEN With(SHOOTER_CACHE, shooter_id,
                                fetch_shots_by_player(shooter_id, season))
                      ELSE SHOOTER_CACHE
             skills == compute_shooter_skill_COMMAND_LINE(shots[shooter_id])
         IN  [val |-> skills, shots |-> shots,
              skills |-> With(SKILL_CACHE, shooter_id, skills)]

GetSkillDB ==
    \E shooter_id \in Shooters, season \in CacheSeasons :
        LET r == get_or_compute_skill(shooter_id, season)
        IN  /\ input.variant = "DB"
            /\ ret' = [op |-> "get_or_compute_skill", variant |-> "DB",
                       shooter_id |-> shooter_id, season |-> season, val |-> r.val]
            /\ SHOOTER_CACHE' = r.shots
            /\ SKILL_CACHE' = r.skills
            /\ UNCHANGED <<pc, local, files, input, prev, db, AQR_STATS_CACHE>>

GetSkillCommandLine ==
    \E shooter_id \in Shooters, season \in CacheSeasons :
        LET r == get_or_compute_skill_COMMAND_LINE(shooter_id, season)
        IN  /\ input.variant = "COMMAND_LINE"
            /\ ret' = [op |-> "get_or_compute_skill", variant |-> "COMMAND_LINE",
                       shooter_id |-> shooter_id, season |-> season, val |-> r.val]
            /\ SHOOTER_CACHE' = r.shots
            /\ SKILL_CACHE' = r.skills
            /\ UNCHANGED <<pc, local, files, input, prev, db, AQR_STATS_CACHE>>

InitSkillCache ==
    /\ input \in SkillCacheInputs
    /\ ret = NoCall
    /\ prev = NoCall
    /\ db \in SkillTables
    /\ AQR_STATS_CACHE = << >>
    /\ SHOOTER_CACHE = << >>
    /\ SKILL_CACHE = << >>
    /\ pc = << >>
    /\ local = << >>
    /\ files = << >>

NextSkillCache ==
    \/ GetSkillDB
    \/ GetSkillCommandLine

SpecSkillCache == InitSkillCache /\ [][NextSkillCache]_vars

\* C17: after any sequence of get_or_compute_skill calls, the profile
\* returned for (shooter, season) is compute_shooter_skill of that shooter's
\* history of that season.
C17_ProfileOfOwnSeason ==
    ret.op = "get_or_compute_skill" =>
        ret.val = IF ret.variant = "DB"
                  THEN compute_shooter_skill(db[ret.shooter_id][ret.season])
                  ELSE compute_shooter_skill_COMMAND_LINE(db[ret.shooter_id][ret.season])

-----------------------------------------------------------------------------
(* Bulk aggregation (statistics build, rankings, passer averages, analysis) *)
(*                                                                         *)
(* The shots table holds, per season, the assisted shots in row order:     *)
(* db[season][i] is what compute_single_assist_AQR_raw gives for row i     *)
(* (None when it raises), input.assist_player_id[i] the passer of row i    *)
(* (None for a row without passer id).  An assist is named by its row.     *)

Passers == {"a1", "a2"}
PasserIds == {None} \cup {Some(p) : p \in Passers}
BulkScores == {None, Some(1), Some(2)}
RegularScores == {Some(1), Some(2), Some(3)}
MaxBatch == 2
MaxLong == 6
TopK == 5
MinAssists == {1, 2}
MinConnection == 10
MaxConn == 11
ShooterNames == {"s1", "s2"}

\* Short tables of any rows; tables one row longer whose rows all score, at three
\* levels, for either passer; and longer ones of one passer whose shots all score.
BulkTables ==
    UNION {[1..k -> BulkScores \X PasserIds] : k \in 0..MaxBatch}
    \cup [1..(MaxBatch + 1) -> RegularScores \X {Some(p) : p \in Passers}]
    \cup UNION {[1..k -> {Some(1), Some(2)} \X {Some("a1")}] : k \in (MaxBatch + 2)..MaxLong}

\* Tables of one passer long enough for a shooter connection: rows <<score, passer,
\* shooter>>, the first c rows finished by one shooter and the rest by the other,
\* all but at most one row by the same shooter.
ConnectionTables ==
    UNION {{[i \in 1..k |-> <<Some(1), Some("a1"), IF i <= c THEN pair[1] ELSE pair[2]>>] :
               c \in {0, 1}, pair \in {q \in ShooterNames \X ShooterNames : q[1] # q[2]}}
           : k \in MinConnection..MaxConn}

Column(t, c) == [i \in DOMAIN t |-> t[i][c]]

RECURSIVE sum(_)
sum(s) == IF s = << >> THEN 0 ELSE Head(s) + sum(Tail(s))

FloatLt(x, y) == BigLe(x, y) /\ x # y

\* Python computes a value where it is assigned: Evaluated(x) is TRUE once x is computed,
\* and is asked for x in the order of the program's statements.
Evaluated(x) == x = x

\* The rows of the set members, in row order.
RECURSIVE InOrder(_, _, _)
InOrder(members, row, last) ==
    IF row > last THEN << >>
    ELSE (IF row \in members THEN <<row>> ELSE << >>) \o InOrder(members, row + 1, last)

fetch_assists_by_assister(assister_id, season) ==
    InOrder({row \in 1..Len(db[season]) : input.assist_player_id[row] = Some(assister_id)},
            1, Len(db[season]))

compute_single_assist_AQR_raw(a, season) == db[season][a]

Raises(batch, season) ==
    \E i \in DOMAIN batch : compute_single_assist_AQR_raw(batch[i], season) = None

RECURSIVE raw_vals(_, _)
raw_vals(batch, season) ==
    IF batch = << >> THEN << >>
    ELSE <<Val(compute_single_assist_AQR_raw(Head(batch), season))>>
         \o raw_vals(Tail(batch), season)

\* stats["mean"] = statistics.mean(all_aqrs)
league_mean(st) == FloatDivInt(sum(st.all_values), Len(st.all_values))

\* normalize_aqr at a float argument (a shrunk mean), against the values of the stats st
normalize_shrunk(value, st) ==
    LET stored == st.all_values
        below == Cardinality({i \in DOMAIN stored : FloatLt(FloatOfInt(stored[i]), value)})
    IN  IF Evaluated(below)
        THEN RoundTenths(FloatAdd(FloatMul(FloatDivInt(below, Len(stored)), FloatOfInt(99)),
                                  FloatOfInt(1)))
        ELSE 0

\* sorted(items, key=..., reverse=True): descending by key, equal keys in input order
RECURSIVE InsertDescending_TiesAfter(_, _)
InsertDescending_TiesAfter(v, s) ==
    IF s = << >> THEN <<v>>
    ELSE IF Head(s).key < v.key THEN <<v>> \o s
    ELSE <<Head(s)>> \o InsertDescending_TiesAfter(v, Tail(s))

RECURSIVE InsertDescending(_, _)
InsertDescending(v, s) ==
    IF s = << >> THEN <<v>>
    ELSE IF Head(s).key <= v.key THEN <<v>> \o s
    ELSE <<Head(s)>> \o InsertDescending(v, Tail(s))

RECURSIVE sorted_reverse_TiesReversed(_)
sorted_reverse_TiesReversed(items) ==
    IF items = << >> THEN << >>
    ELSE InsertDescending_TiesAfter(Head(items), sorted_reverse_TiesReversed(Tail(items)))

RECURSIVE sorted_reverse(_)
sorted_reverse(items) ==
    IF items = << >> THEN << >>
    ELSE InsertDescending(Head(items), sorted_reverse(Tail(items)))

FirstK(s, k) == SubSeq(s, 1, IF Len(s) < k THEN Len(s) ELSE k)

\* The shrunk and normalized average of the values vals (all scored), given the stats st.
ShrunkNormalized(vals, st) ==
    LET mean_raw == FloatDivInt(sum(vals), Len(vals))
        league_avg_raw == league_mean(st)
        shrunk_raw == shrink_aqr(mean_raw, Len(vals), league_avg_raw, ShrinkDefaultM).val
    IN  IF Evaluated(mean_raw) /\ Evaluated(league_avg_raw) /\ Evaluated(shrunk_raw)
        THEN normalize_shrunk(shrunk_raw, st)
        ELSE 0

NoAverage == [err |-> "", val |-> None, scored |-> 0, cache |-> AQR_STATS_CACHE]

avg_assister_season(assister_id, season) ==
    LET passer_assists == fetch_assists_by_assister(assister_id, season)
    IN  IF passer_assists = << >> THEN NoAverage
        ELSE IF Raises(passer_assists, season)
        THEN [err |-> "Exception", val |-> None, scored |-> 0, cache |-> AQR_STATS_CACHE]
        ELSE LET built == compute_aqr_statistics(season, FALSE)
                 season_stats == built.stats
             IN  IF built.err # ""
                 THEN [err |-> built.err, val |-> None, scored |-> 0, cache |-> built.cache]
                 ELSE [err |-> "",
                       val |-> Some(ShrunkNormalized(raw_vals(passer_assists, season), season_stats)),
                       scored |-> Len(passer_assists), cache |-> built.cache]

NoAnalysis == [err |-> "", average |-> None, top |-> << >>, connections |-> << >>,
               scored |-> 0, cache |-> AQR_STATS_CACHE]

\* zip(assists, normalized_aqrs): each assist with compute_single_assist_AQR of it
RECURSIVE zip_normalized(_, _)
zip_normalized(batch, season) ==
    IF batch = << >> THEN << >>
    ELSE <<[a |-> Head(batch),
            key |-> normalize_aqr(Val(compute_single_assist_AQR_raw(Head(batch), season)),
                                  season).val]>>
         \o zip_normalized(Tail(batch), season)

\* The keys of by_shooter in insertion order: the shooters by first assist, from
\* the i-th pair of zip(assists, normalized_aqrs) on.
RECURSIVE ShootersOf(_, _, _)
ShootersOf(pairs, i, seen) ==
    IF i > Len(pairs) THEN << >>
    ELSE IF input.player[pairs[i].a] \in seen THEN ShootersOf(pairs, i + 1, seen)
    ELSE <<input.player[pairs[i].a]>>
         \o ShootersOf(pairs, i + 1, seen \cup {input.player[pairs[i].a]})

\* by_shooter[name]: the normalized values of the shooter's assists, in order, from
\* the i-th pair on
RECURSIVE by_shooter(_, _, _)
by_shooter(pairs, name, i) ==
    IF i > Len(pairs) THEN << >>
    ELSE (IF input.player[pairs[i].a] = name THEN <<pairs[i].key>> ELSE << >>)
         \o by_shooter(pairs, name, i + 1)

\* sum(vals) of normalized values (floats of one decimal), added left to right from
\* 0: acc is the sum of the first i - 1 values
RECURSIVE float_sum(_, _, _)
float_sum(vals, i, acc) ==
    IF i > Len(vals) THEN acc
    ELSE LET next == FloatAdd(acc, FloatDivInt(vals[i], 10))
         IN  IF Evaluated(next) THEN float_sum(vals, i + 1, next) ELSE acc

\* (name, len(vals), sum(vals)/len(vals)) for the shooters with at least 10 assists,
\* from the i-th name on
RECURSIVE shooter_avgs(_, _, _)
shooter_avgs(names, pairs, i) ==
    IF i > Len(names) THEN << >>
    ELSE LET vals == by_shooter(pairs, names[i], 1)
         IN  (IF Len(vals) >= MinConnection
              THEN <<[name |-> names[i], count |-> Len(vals),
                      avg |-> FloatDiv(float_sum(vals, 1, FloatOfInt(0)),
                                       FloatOfInt(Len(vals)))]>>
              ELSE << >>)
             \o shooter_avgs(names, pairs, i + 1)

\* shooter_avgs.sort(key=lambda x: x[2], reverse=True): descending by the float
\* average, equal averages in input order
RECURSIVE InsertByAvg(_, _)
InsertByAvg(v, s) ==
    IF s = << >> THEN <<v>>
    ELSE IF BigLe(Head(s).avg, v.avg) THEN <<v>> \o s
    ELSE <<Head(s)>> \o InsertByAvg(v, Tail(s))

RECURSIVE sort_by_avg(_)
sort_by_avg(items) ==
    IF items = << >> THEN << >>
    ELSE InsertByAvg(Head(items), sort_by_avg(Tail(items)))

analyze_assister(assister_id, season) ==
    LET passer_assists == fetch_assists_by_assister(assister_id, season)
    IN  IF passer_assists = << >> THEN NoAnalysis
        ELSE IF Raises(passer_assists, season)
        THEN [NoAnalysis EXCEPT !.err = "Exception"]
        ELSE LET built == compute_aqr_statistics(season, FALSE)
                 season_stats == built.stats
                 raw_aqrs == raw_vals(passer_assists, season)
                 pairs == zip_normalized(passer_assists, season)
             IN  IF built.err # ""
                 THEN [NoAnalysis EXCEPT !.err = built.err, !.cache = built.cache]
                 ELSE [err |-> "",
                       average |-> Some(ShrunkNormalized(raw_aqrs, season_stats)),
                       top |-> FirstK(sorted_reverse(pairs), TopK),
                       connections |->
                           CHOOSE listed \in {FirstK(sort_by_avg(shooter_avgs(ShootersOf(z, 1, {}),
                                                                              z, 1)), TopK) :
                                                 z \in {pairs}} : TRUE,
                       scored |-> Len(passer_assists), cache |-> built.cache]

\* The rows the loop of compute_adjusted_rankings keeps: scored, with a passer id.
Kept(season) ==
    InOrder({row \in 1..Len(db[season]) :
                /\ compute_single_assist_AQR_raw(row, season) # None
                /\ input.assist_player_id[row] # None},
            1, Len(db[season]))

\* passer_to_raw_aqrs[pid]: the kept rows of the passer.
KeptOf(pid, season) ==
    InOrder({row \in 1..Len(db[season]) :
                /\ compute_single_assist_AQR_raw(row, season) # None
                /\ input.assist_player_id[row] = Some(pid)},
            1, Len(db[season]))

\* Ranked without the threshold: every passer with a kept row.
Ranked_NoThreshold(pids, season, min_assists) == pids

\* The passers with at least min_assists kept rows (line 761), in the order of pids.
RECURSIVE Ranked(_, _, _)
Ranked(pids, season, min_assists) ==
    IF pids = << >> THEN << >>
    ELSE (IF Len(KeptOf(Head(pids), season)) >= min_assists THEN <<Head(pids)>> ELSE << >>)
         \o Ranked(Tail(pids), season, min_assists)

\* The keys of passer_to_raw_aqrs in insertion order: by first kept row.
RECURSIVE PassersOf(_, _)
PassersOf(kept, seen) ==
    IF kept = << >> THEN << >>
    ELSE LET passer == Val(input.assist_player_id[Head(kept)])
         IN  IF passer \in seen THEN PassersOf(Tail(kept), seen)
             ELSE <<passer>> \o PassersOf(Tail(kept), seen \cup {passer})

\* The rows of results_table (lines 759-785) for the passers ranked, before the sort.
RECURSIVE TableRows(_, _, _)
TableRows(ranked, season, st) ==
    IF ranked = << >> THEN << >>
    ELSE <<[pid |-> Head(ranked), assists |-> Len(KeptOf(Head(ranked), season)),
            key |-> ShrunkNormalized(raw_vals(KeptOf(Head(ranked), season), season), st)]>>
         \o TableRows(Tail(ranked), season, st)

compute_adjusted_rankings(season, min_assists) ==
    LET built == compute_aqr_statistics(season, FALSE)
        season_stats == built.stats
        ranked_pids == Ranked(PassersOf(Kept(season), {}), season, min_assists)
        results_table == TableRows(ranked_pids, season, season_stats)
    IN  IF built.err # ""
        THEN [err |-> built.err, results_table |-> << >>, scored |-> 0, cache |-> built.cache,
              fetched |-> built.fetched]
        ELSE [err |-> "", results_table |-> sorted_reverse(results_table),
              scored |-> Len(all_aqrs(fetch_all_assists(season))), cache |-> built.cache,
              fetched |-> built.fetched]

\* Each behaviour makes one bulk call in a fresh process (empty caches); ret records
\* the batch size, the rows scored, and what the call prints about its batch.
NoCounts == [loaded |-> None, computed |-> None]

BuildStatistics ==
    \E season \in Seasons, force_refresh \in BOOLEAN :
        \E r \in {compute_aqr_statistics(season, force_refresh)},
           assists \in {fetch_all_assists(season)} :
            /\ ret = NoCall
            /\ ret' = [op |-> "compute_aqr_statistics", season |-> season, err |-> r.err,
                       batch |-> IF r.fetched THEN Len(assists) ELSE 0,
                       scored |-> IF r.fetched THEN Len(all_aqrs(assists)) ELSE 0,
                       skips |-> r.fetched,
                       printed |-> IF r.fetched
                                   THEN [loaded |-> Some(Len(assists)),
                                         computed |-> Some(Len(all_aqrs(assists)))]
                                   ELSE NoCounts,
                       result |-> r.stats]
            /\ AQR_STATS_CACHE' = r.cache
            /\ UNCHANGED <<pc, local, files, SHOOTER_CACHE, SKILL_CACHE, input, prev, db>>

AdjustedRankings ==
    \E season \in Seasons, min_assists \in MinAssists :
        \E r \in {compute_adjusted_rankings(season, min_assists)},
           assists \in {fetch_all_assists(season)} :
            /\ ret = NoCall
            /\ ret' = [op |-> "compute_adjusted_rankings", season |-> season, err |-> r.err,
                       min_assists |-> min_assists,
                       batch |-> Len(assists), scored |-> r.scored, skips |-> r.err = "",
                       printed |-> IF r.fetched
                                   THEN [loaded |-> Some(Len(assists)),
                                         computed |-> Some(Len(all_aqrs(assists)))]
                                   ELSE IF r.err = ""
                                   THEN [loaded |-> Some(Len(assists)), computed |-> None]
                                   ELSE NoCounts,
                       result |-> r.results_table]
            /\ AQR_STATS_CACHE' = r.cache
            /\ UNCHANGED <<pc, local, files, SHOOTER_CACHE, SKILL_CACHE, input, prev, db>>

AverageSeason ==
    \E assister_id \in Passers, season \in Seasons :
        \E r \in {avg_assister_season(assister_id, season)} :
            /\ ret = NoCall
            /\ ret' = [op |-> "avg_assister_season", season |-> season, err |-> r.err,
                       assister_id |-> assister_id,
                       batch |-> Len(fetch_assists_by_assister(assister_id, season)),
                       scored |-> r.scored, skips |-> FALSE, printed |-> NoCounts,
                       result |-> r.val]
            /\ AQR_STATS_CACHE' = r.cache
            /\ UNCHANGED <<pc, local, files, SHOOTER_CACHE, SKILL_CACHE, input, prev, db>>

AnalyzeAssister ==
    \E assister_id \in Passers, season \in Seasons :
        \E r \in {analyze_assister(assister_id, season)} :
            /\ ret = NoCall
            /\ ret' = [op |-> "analyze_assister", season |-> season, err |-> r.err,
                       assister_id |-> assister_id,
                       batch |-> Len(fetch_assists_by_assister(assister_id, season)),
                       scored |-> r.scored, skips |-> FALSE,
                       printed |-> [loaded |-> None,
                                    computed |-> IF r.err = "" /\ r.scored > 0
                                                 THEN Some(r.scored) ELSE None],
                       result |-> [average |-> r.average, top |-> r.top,
                                   connections |-> r.connections]]
            /\ AQR_STATS_CACHE' = r.cache
            /\ UNCHANGED <<pc, local, files, SHOOTER_CACHE, SKILL_CACHE, input, prev, db>>

InitBulk ==
    /\ \E t \in BulkTables :
          /\ db = [season \in Seasons |-> Column(t, 1)]
          /\ input = [assist_player_id |-> Column(t, 2),
                      player |-> [i \in DOMAIN t |-> "s1"]]
    /\ ret = NoCall
    /\ prev = NoCall
    /\ AQR_STATS_CACHE = << >>
    /\ SHOOTER_CACHE = << >>
    /\ SKILL_CACHE = << >>
    /\ pc = << >>
    /\ local = << >>
    /\ files = << >>

NextBulk ==
    \/ BuildStatistics
    \/ AdjustedRankings
    \/ AverageSeason
    \/ AnalyzeAssister

SpecBulk == InitBulk /\ [][NextBulk]_vars

IsBulkCall(r) ==
    r.op \in {"compute_aqr_statistics", "compute_adjusted_rankings",
              "avg_assister_season", "analyze_assister"}

\* C18: no bulk aggregation is aborted by a shot whose scoring raises: the
\* exception of a single record never reaches the caller.
C18_MalformedRecordSkipped ==
    IsBulkCall(ret) => ret.err # "Exception"


\* C19: a bulk aggregation that skips failing shots reports the number of
\* skipped records with its result, and that number plus the number of shots
\* scored is the size of the batch.
C19_SkippedCountReported ==
    (IsBulkCall(ret) /\ ret.skips /\ ret.err = "") =>
        /\ "skipped" \in DOMAIN ret.printed
        /\ ret.printed.skipped # None
        /\ Val(ret.printed.skipped) + ret.scored = ret.batch

IsTopCall(r) == r.op \in {"analyze_assister", "compute_adjusted_rankings"} /\ r.err = ""

TopList(r) == IF r.op = "analyze_assister" THEN r.result.top ELSE r.result

\* Where an entry of the list stands in the input: the row of an assist, the
\* first kept row of a passer.
InputPosition(r, entry) ==
    IF r.op = "analyze_assister" THEN entry.a ELSE Head(KeptOf(entry.pid, r.season))

\* The number of entities the list is taken from.
InputCount(r) ==
    IF r.op = "analyze_assister" THEN r.batch
    ELSE Cardinality({p \in Passers : Len(KeptOf(p, r.season)) >= r.min_assists /\
                                      Len(KeptOf(p, r.season)) > 0})

Limit(r) == IF r.op = "analyze_assister" THEN TopK ELSE InputCount(r)

\* The assists of the analysed passer that the top list leaves out.
LeftOut(r) ==
    IF r.op # "analyze_assister" THEN {}
    ELSE {row \in 1..Len(db[r.season]) :
             /\ input.assist_player_id[row] = Some(r.assister_id)
             /\ \A i \in DOMAIN r.result.top : r.result.top[i].a # row}

\* C20: the top list holds min(K, number of inputs) entries, is descending by
\* normalized value, keeps the input order among equal values, and leaves out
\* only inputs that a stable descending sort puts after every entry kept.
C20_TopKStableDescending ==
    IsTopCall(ret) =>
        LET top == TopList(ret)
        IN  /\ Len(top) = IF InputCount(ret) < Limit(ret) THEN InputCount(ret) ELSE Limit(ret)
            /\ \A i, j \in DOMAIN top :
                  i < j => /\ top[i].key >= top[j].key
                           /\ InputPosition(ret, top[i]) # InputPosition(ret, top[j])
                           /\ top[i].key = top[j].key =>
                                 InputPosition(ret, top[i]) < InputPosition(ret, top[j])
            /\ \A row \in LeftOut(ret) : \A i \in DOMAIN top :
                  LET key == normalize_aqr(Val(db[ret.season][row]), ret.season).val
                  IN  \/ top[i].key > key
                      \/ top[i].key = key /\ top[i].a < row

\* C20 witness: an analysis of more than K assists whose top list has both a
\* tie and a strict descent.
C20_Witness ==
    /\ ret.op = "analyze_assister"
    /\ ret.err = ""
    /\ ret.batch > TopK
    /\ Len(ret.result.top) = TopK
    /\ \E i, j \in DOMAIN ret.result.top : i < j /\ ret.result.top[i].key = ret.result.top[j].key
    /\ \E i, j \in DOMAIN ret.result.top : i < j /\ ret.result.top[i].key > ret.result.top[j].key


-----------------------------------------------------------------------------
\* The minimum-sample thresholds of the ranked outputs, under SpecBulk.

\* The ranked outputs on the short tables and on the connection tables.
InitSample ==
    /\ \/ \E t \in {b \in BulkTables : Len(b) <= MaxBatch + 1} :
             /\ db = [season \in Seasons |-> Column(t, 1)]
             /\ input = [assist_player_id |-> Column(t, 2),
                         player |-> [i \in DOMAIN t |-> "s1"]]
       \/ \E t \in ConnectionTables :
             /\ db = [season \in Seasons |-> Column(t, 1)]
             /\ input = [assist_player_id |-> Column(t, 2), player |-> Column(t, 3)]
    /\ ret = NoCall
    /\ prev = NoCall
    /\ AQR_STATS_CACHE = << >>
    /\ SHOOTER_CACHE = << >>
    /\ SKILL_CACHE = << >>
    /\ pc = << >>
    /\ local = << >>
    /\ files = << >>

NextSample ==
    \/ AdjustedRankings
    \/ AnalyzeAssister

SpecSample == InitSample /\ [][NextSample]_vars

\* The number of the passer's assists of the season that score.
ScoredAssists(pid, season) ==
    Cardinality({row \in DOMAIN db[season] :
                    /\ input.assist_player_id[row] = Some(pid)
                    /\ db[season][row] # None})

\* The number of assists from the passer to the shooter.
AssistsTo(pid, name, season) ==
    Cardinality({row \in DOMAIN db[season] :
                    /\ input.assist_player_id[row] = Some(pid)
                    /\ input.player[row] = name})

IsRankingCall == ret.op = "compute_adjusted_rankings" /\ ret.err = ""
IsAnalysis == ret.op = "analyze_assister" /\ ret.err = ""

\* C21: compute_adjusted_rankings returns a row for a passer if and only if the passer
\* has at least min_assists scored assists, one row per passer, whose assists count
\* is the passer's number of scored assists and so at least min_assists; the shooter
\* connections of analyze_assister list a shooter if and only if the passer has at
\* least 10 assists to that shooter, with that number as the count.
C21_MinimumSample ==
    /\ IsRankingCall =>
          /\ \A p \in Passers :
                (\E i \in DOMAIN ret.result : ret.result[i].pid = p)
                    <=> ScoredAssists(p, ret.season) >= ret.min_assists
          /\ \A i \in DOMAIN ret.result :
                /\ ret.result[i].pid \in Passers
                /\ ret.result[i].assists >= ret.min_assists
                /\ ret.result[i].assists = ScoredAssists(ret.result[i].pid, ret.season)
                /\ \A j \in DOMAIN ret.result : ret.result[j].pid = ret.result[i].pid => j = i
    /\ IsAnalysis =>
          /\ \A name \in ShooterNames :
                (\E i \in DOMAIN ret.result.connections :
                    ret.result.connections[i].name = name)
                    <=> AssistsTo(ret.assister_id, name, ret.season) >= MinConnection
          /\ \A i \in DOMAIN ret.result.connections :
                /\ ret.result.connections[i].count >= MinConnection
                /\ ret.result.connections[i].count
                       = AssistsTo(ret.assister_id, ret.result.connections[i].name, ret.season)

\* A ranking that lists one passer and leaves out another who has scored assists,
\* but fewer than min_assists.
C21_Witness ==
    /\ IsRankingCall
    /\ Len(ret.result) = 1
    /\ \E p \in Passers :
          /\ ScoredAssists(p, ret.season) > 0
          /\ ScoredAssists(p, ret.season) < ret.min_assists

\* An analysis that lists a shooter connection and leaves out a shooter the passer
\* assisted fewer than 10 times.
ConnectionListed ==
    /\ IsAnalysis
    /\ Len(ret.result.connections) = 1
    /\ \E name \in ShooterNames :
          /\ AssistsTo(ret.assister_id, name, ret.season) > 0
          /\ AssistsTo(ret.assister_id, name, ret.season) < MinConnection


-----------------------------------------------------------------------------
\* The closing seconds in the DB variant's get_clutch_factor, under SpecClutch.

\* C23: in the DB variant every shot in period >= 4 with a recorded time remaining
\* t, 0 <= t <= 5, and a recorded margin of absolute value <= 3 gets the factor 1.2
\* (a shot at the buzzer, t = 0, and a tied game, margin 0, included); a shot whose
\* time is missing gets the factor of 720 seconds remaining, 1.0.
C23_ClosingSecondsTopClutch ==
    (ret.op = "get_clutch_factor" /\ ret.variant = "DB" /\ ret.shot.period >= ClutchPeriod) =>
        /\ ( /\ ret.shot.shot_time # None
             /\ Val(ret.shot.shot_time) >= 0
             /\ Val(ret.shot.shot_time) <= 5
             /\ ret.shot.score_margin # None
             /\ Abs(Val(ret.shot.score_margin)) <= 3 )
           => (ret.err = "" /\ ret.val = Decimal(12, 1))
        /\ ret.shot.shot_time = None => (ret.err = "" /\ ret.val = One)


-----------------------------------------------------------------------------
(* Two interleaved executions of compute_aqr_statistics                     *)

\* The executions share the three module-level caches; each statement that reads
\* or writes a cache is one step, and every fetch opens a connection of its own.
Executions == {1, 2}
RaceSeason == "2024-25"

\* Largest number of assisted shots in the table.
MaxAssists == 2

\* The assisted shots: a rim shot finished by either shooter, and a record without
\* shot quality, for which get_creation_boost raises.
RaceShots ==
    {s \in [shot_type : {"AtRim"}, shot_quality : {None, Some(665)}, opponent : {"BOS"},
            period : {2}, shot_time : {Some(100)}, score_margin : {Some(0)},
            player_id : Shooters] :
        s.shot_quality = None => s.player_id = "p1"}

RaceAssists == UNION {[1..k -> RaceShots] : k \in 0..MaxAssists}

\* The shot histories of the shooters: the second shooter has taken no shot.
RaceHistories == {h \in [Shooters -> SeasonHistories] : h["p2"] = <<0, 0, 0, 0, 0, 0>>}

\* The profile as the floats the factors are multiplied with.
FloatSkills(skills) ==
    [zone \in DOMAIN skills |->
        SFloat(FloatDiv(FloatOfInt(skills[zone][1]), FloatOfInt(skills[zone][2])))]

RECURSIVE InsertFloat(_, _)
InsertFloat(v, s) ==
    IF s = << >> THEN <<v>>
    ELSE IF SLt(v, Head(s)) THEN <<v>> \o s
    ELSE <<Head(s)>> \o InsertFloat(v, Tail(s))

\* sorted(all_aqrs) of floats
RECURSIVE sorted_floats(_)
sorted_floats(s) == IF s = << >> THEN << >> ELSE InsertFloat(Head(s), sorted_floats(Tail(s)))

\* SHOOTER_CACHE[shooter_id].extend(rows) in place of the assignment.
StoreShots_Extends(cache, shooter_id, rows) ==
    IF shooter_id \in DOMAIN cache
    THEN With(cache, shooter_id, [k \in DOMAIN rows |-> cache[shooter_id][k] + rows[k]])
    ELSE With(cache, shooter_id, rows)

\* SHOOTER_CACHE[shooter_id] = rows
StoreShots(cache, shooter_id, rows) == With(cache, shooter_id, rows)

NoLocals == [assists |-> << >>, i |-> 0, all_aqrs |-> << >>, skills |-> << >>,
             stats |-> NoStats]

\* Where the loop over the assists goes after shot i - 1.
NextShot(assists, i) == IF i > Len(assists) THEN "stats" ELSE "skill_check"

CurrentShot(t) == local[t].assists[local[t].i]
CurrentKey(t) == <<CurrentShot(t).player_id, RaceSeason>>

\* if season in AQR_STATS_CACHE and not force_refresh: return AQR_STATS_CACHE[season]
CheckStatsCache(t) ==
    /\ pc[t] = "check"
    /\ IF RaceSeason \in DOMAIN AQR_STATS_CACHE
       THEN /\ local' = [local EXCEPT ![t].stats = AQR_STATS_CACHE[RaceSeason]]
            /\ pc' = [pc EXCEPT ![t] = "done"]
       ELSE /\ pc' = [pc EXCEPT ![t] = "fetch"]
            /\ UNCHANGED local
    /\ UNCHANGED <<input, ret, prev, db, AQR_STATS_CACHE, SHOOTER_CACHE, SKILL_CACHE, files>>

\* assists = fetch_all_assists(season); all_aqrs = []
FetchAssists(t) ==
    /\ pc[t] = "fetch"
    /\ LET assists == fetch_all_assists(RaceSeason)
       IN  /\ local' = [local EXCEPT ![t].assists = assists, ![t].i = 1]
           /\ pc' = [pc EXCEPT ![t] = NextShot(assists, 1)]
    /\ UNCHANGED <<input, ret, prev, db, AQR_STATS_CACHE, SHOOTER_CACHE, SKILL_CACHE, files>>

\* get_or_compute_skill: if key in SKILL_CACHE: return SKILL_CACHE[key]
CheckSkillCache(t) ==
    /\ pc[t] = "skill_check"
    /\ IF CurrentKey(t) \in DOMAIN SKILL_CACHE
       THEN /\ local' = [local EXCEPT ![t].skills = SKILL_CACHE[CurrentKey(t)]]
            /\ pc' = [pc EXCEPT ![t] = "score"]
       ELSE /\ pc' = [pc EXCEPT ![t] = "shots_check"]
            /\ UNCHANGED local
    /\ UNCHANGED <<input, ret, prev, db, AQR_STATS_CACHE, SHOOTER_CACHE, SKILL_CACHE, files>>

\* if shooter_id not in SHOOTER_CACHE:
CheckShooterCache(t) ==
    /\ pc[t] = "shots_check"
    /\ pc' = [pc EXCEPT ![t] = IF CurrentShot(t).player_id \notin DOMAIN SHOOTER_CACHE
                               THEN "shots_store" ELSE "compute"]
    /\ UNCHANGED <<input, ret, prev, db, AQR_STATS_CACHE, SHOOTER_CACHE, SKILL_CACHE, local,
                   files>>

\* SHOOTER_CACHE[shooter_id] = fetch_shots_by_player(shooter_id, season)
StoreShooterShots(t) ==
    /\ pc[t] = "shots_store"
    /\ SHOOTER_CACHE' = StoreShots(SHOOTER_CACHE, CurrentShot(t).player_id,
                                   fetch_shots_by_player(CurrentShot(t).player_id, RaceSeason))
    /\ pc' = [pc EXCEPT ![t] = "compute"]
    /\ UNCHANGED <<input, ret, prev, db, AQR_STATS_CACHE, SKILL_CACHE, local, files>>

\* skills = compute_shooter_skill(SHOOTER_CACHE[shooter_id])
ComputeSkill(t) ==
    /\ pc[t] = "compute"
    /\ local' = [local EXCEPT
                    ![t].skills = compute_shooter_skill(SHOOTER_CACHE[CurrentShot(t).player_id])]
    /\ pc' = [pc EXCEPT ![t] = "skill_store"]
    /\ UNCHANGED <<input, ret, prev, db, AQR_STATS_CACHE, SHOOTER_CACHE, SKILL_CACHE, files>>

\* SKILL_CACHE[key] = skills; return skills
StoreSkill(t) ==
    /\ pc[t] = "skill_store"
    /\ SKILL_CACHE' = With(SKILL_CACHE, CurrentKey(t), local[t].skills)
    /\ pc' = [pc EXCEPT ![t] = "score"]
    /\ UNCHANGED <<input, ret, prev, db, AQR_STATS_CACHE, SHOOTER_CACHE, local, files>>

\* aqr = compute_AQR_for_shot_raw(shot, skills, season); all_aqrs.append(aqr), or
\* `continue` on an exception
ScoreShot(t) ==
    /\ pc[t] = "score"
    /\ LET r == compute_AQR_for_shot_raw(CurrentShot(t), FloatSkills(local[t].skills),
                                         RaceSeason)
       IN  /\ local' = [local EXCEPT
                           ![t].all_aqrs = IF r.err = "" THEN Append(@, r.val) ELSE @,
                           ![t].i = @ + 1]
           /\ pc' = [pc EXCEPT ![t] = NextShot(local[t].assists, local[t].i + 1)]
    /\ UNCHANGED <<input, ret, prev, db, AQR_STATS_CACHE, SHOOTER_CACHE, SKILL_CACHE, files>>

\* stats = {...}: statistics.mean / stdev raise on fewer than two values
BuildStats(t) ==
    /\ pc[t] = "stats"
    /\ IF Len(local[t].all_aqrs) < 2
       THEN /\ pc' = [pc EXCEPT ![t] = "raised"]
            /\ UNCHANGED local
       ELSE /\ local' = [local EXCEPT ![t].stats = [all_values |-> sorted_floats(local[t].all_aqrs)]]
            /\ pc' = [pc EXCEPT ![t] = "store"]
    /\ UNCHANGED <<input, ret, prev, db, AQR_STATS_CACHE, SHOOTER_CACHE, SKILL_CACHE, files>>

\* AQR_STATS_CACHE[season] = stats; return stats
StoreStats(t) ==
    /\ pc[t] = "store"
    /\ AQR_STATS_CACHE' = With(AQR_STATS_CACHE, RaceSeason, local[t].stats)
    /\ pc' = [pc EXCEPT ![t] = "done"]
    /\ UNCHANGED <<input, ret, prev, db, SHOOTER_CACHE, SKILL_CACHE, local, files>>

\* A fresh process (empty caches), the table fixed, both executions about to start.
InitRace ==
    /\ \E assists \in RaceAssists, histories \in RaceHistories :
          db = [k \in {RaceSeason} \cup Shooters |->
                   IF k = RaceSeason THEN assists ELSE [s \in {RaceSeason} |-> histories[k]]]
    /\ input = [REL_DEF |-> << >>]
    /\ ret = NoCall
    /\ prev = NoCall
    /\ AQR_STATS_CACHE = << >>
    /\ SHOOTER_CACHE = << >>
    /\ SKILL_CACHE = << >>
    /\ pc = [t \in Executions |-> "check"]
    /\ local = [t \in Executions |-> NoLocals]
    /\ files = << >>

NextRace ==
    \/ \E t \in Executions : CheckStatsCache(t)
    \/ \E t \in Executions : FetchAssists(t)
    \/ \E t \in Executions : CheckSkillCache(t)
    \/ \E t \in Executions : CheckShooterCache(t)
    \/ \E t \in Executions : StoreShooterShots(t)
    \/ \E t \in Executions : ComputeSkill(t)
    \/ \E t \in Executions : StoreSkill(t)
    \/ \E t \in Executions : ScoreShot(t)
    \/ \E t \in Executions : BuildStats(t)
    \/ \E t \in Executions : StoreStats(t)

SpecRace == InitRace /\ [][NextRace]_vars

\* One build alone, from empty caches: the shooter shots, the profiles and the raw
\* values it leaves (lines 355-361 over lines 180-191 and 311-318).
RECURSIVE SequentialBuild(_, _, _, _)
SequentialBuild(assists, shots, skills, values) ==
    IF assists = << >> THEN [shots |-> shots, skills |-> skills, values |-> values]
    ELSE LET shot == Head(assists)
             key == <<shot.player_id, RaceSeason>>
             hit == key \in DOMAIN skills
             shots1 == IF ~hit /\ shot.player_id \notin DOMAIN shots
                       THEN With(shots, shot.player_id,
                                 fetch_shots_by_player(shot.player_id, RaceSeason))
                       ELSE shots
             profile == IF hit THEN skills[key]
                        ELSE compute_shooter_skill(shots1[shot.player_id])
             r == compute_AQR_for_shot_raw(shot, FloatSkills(profile), RaceSeason)
         IN  SequentialBuild(Tail(assists), shots1, With(skills, key, profile),
                             IF r.err = "" THEN Append(values, r.val) ELSE values)

Finished(t) == pc[t] \in {"done", "raised"}

\* C22: when both interleaved executions of compute_aqr_statistics for the season
\* have finished, AQR_STATS_CACHE, SKILL_CACHE and SHOOTER_CACHE hold what one build
\* alone leaves: the stats of the season (nothing when the build raises) and one
\* profile per shooter met.
C22_InterleavedBuildsAgree ==
    (\A t \in Executions : Finished(t)) =>
        LET alone == SequentialBuild(fetch_all_assists(RaceSeason), << >>, << >>, << >>)
        IN  /\ SKILL_CACHE = alone.skills
            /\ SHOOTER_CACHE = alone.shots
            /\ AQR_STATS_CACHE =
                   IF Len(alone.values) < 2 THEN << >>
                   ELSE With(<< >>, RaceSeason, [all_values |-> sorted_floats(alone.values)])

\* Both executions have fetched the assists and built the stats of two shots of a
\* shooter with a history, and both have finished.
C22_Witness ==
    /\ \A t \in Executions : pc[t] = "done" /\ local[t].i = 3
    /\ RaceSeason \in DOMAIN AQR_STATS_CACHE
    /\ \E p \in Shooters : p \in DOMAIN SHOOTER_CACHE /\ SHOOTER_CACHE[p] # <<0, 0, 0, 0, 0, 0>>


-----------------------------------------------------------------------------
(* src/GET_AVERAGES.py: safe_get_json                                       *)

\* The default of the parameter retries, and the largest value tried.
DefaultRetries == 4
MaxRetries == 4

\* What a response parses to: a body with shots, one without shots, one with
\* no "results" key, and the team list.
Bodies ==
    {[results |-> <<"shot">>], [results |-> << >>], [error |-> "rate limited"],
     [teams |-> <<[id |-> "T1"]>>]}

\* return {"results": []}
Fallback == [results |-> << >>]

\* range(1, retries+1) with the next attempt still in it.
InRange_OneMore(attempt, retries) == attempt <= retries + 1

\* for attempt in range(1, retries+1)
InRange(attempt, retries) == attempt <= retries

\* requests.get raises: the warning is printed, time.sleep(0.35), next attempt
RequestError ==
    /\ pc = "attempt"
    /\ InRange(local.attempt, input.retries)
    /\ local' = [attempt |-> local.attempt + 1, requests |-> local.requests + 1,
                 warnings |-> Append(local.warnings, "Request error")]
    /\ UNCHANGED <<input, ret, prev, db, AQR_STATS_CACHE, SHOOTER_CACHE, SKILL_CACHE, pc, files>>

\* resp.json() raises: the warning is printed, time.sleep(0.35), next attempt
NonJsonResponse ==
    /\ pc = "attempt"
    /\ InRange(local.attempt, input.retries)
    /\ local' = [attempt |-> local.attempt + 1, requests |-> local.requests + 1,
                 warnings |-> Append(local.warnings, "Non-JSON response")]
    /\ UNCHANGED <<input, ret, prev, db, AQR_STATS_CACHE, SHOOTER_CACHE, SKILL_CACHE, pc, files>>

\* data = resp.json(); return data
JsonResponse ==
    /\ pc = "attempt"
    /\ InRange(local.attempt, input.retries)
    /\ \E data \in Bodies :
          ret' = [op |-> "safe_get_json", val |-> data, fallback |-> FALSE]
    /\ local' = [local EXCEPT !.requests = @ + 1]
    /\ pc' = "returned"
    /\ UNCHANGED <<input, prev, db, AQR_STATS_CACHE, SHOOTER_CACHE, SKILL_CACHE, files>>

\* the loop is over: "Failed permanently", return {"results": []}
ReturnEmpty ==
    /\ pc = "attempt"
    /\ ~InRange(local.attempt, input.retries)
    /\ ret' = [op |-> "safe_get_json", val |-> Fallback, fallback |-> TRUE]
    /\ pc' = "returned"
    /\ UNCHANGED <<input, prev, db, AQR_STATS_CACHE, SHOOTER_CACHE, SKILL_CACHE, local, files>>

InitFetch ==
    /\ input \in [retries : 0..MaxRetries]
    /\ ret = NoCall
    /\ prev = NoCall
    /\ db = << >>
    /\ AQR_STATS_CACHE = << >>
    /\ SHOOTER_CACHE = << >>
    /\ SKILL_CACHE = << >>
    /\ pc = "attempt"
    /\ local = [attempt |-> 1, requests |-> 0, warnings |-> << >>]
    /\ files = << >>

NextFetch ==
    \/ RequestError
    \/ NonJsonResponse
    \/ JsonResponse
    \/ ReturnEmpty

SpecFetch == InitFetch /\ [][NextFetch]_vars

\* requests.get has a timeout and time.sleep returns, so a call that can take a step
\* takes one.
SpecFetchFair == SpecFetch /\ WF_vars(NextFetch)

-----------------------------------------------------------------------------
(* src/GET_AVERAGES.py: the league scraper and its resume state             *)

TIME_WINDOWS ==
    << <<0, 90>>, <<90, 180>>, <<180, 270>>, <<270, 360>>,
       <<360, 450>>, <<450, 540>>, <<540, 630>>, <<630, 720>> >>

PERIODS == <<1, 2, 3, 4>>

\* Number of teams the API lists.
MaxTeams == 2

\* The ids the API gives are strings, so they are the same keys before and after
\* the progress file.
LeagueTeams == [i \in 1..MaxTeams |-> "T" \o ToString(i)]

\* str(period) and f"{gte}-{lte}"
str(n) == ToString(n)
window_key(w) == ToString(w[1]) \o "-" \o ToString(w[2])

PerTeam == Len(PERIODS) * Len(TIME_WINDOWS)

\* The partition the nested loops reach at their pos-th iteration, over team_ids.
PartitionAt(team_ids, pos) ==
    [team |-> team_ids[((pos - 1) \div PerTeam) + 1],
     period |-> PERIODS[(((pos - 1) % PerTeam) \div Len(TIME_WINDOWS)) + 1],
     window |-> TIME_WINDOWS[((pos - 1) % Len(TIME_WINDOWS)) + 1]]

AllPartitions == {PartitionAt(LeagueTeams, pos) : pos \in 1..(MaxTeams * PerTeam)}

\* The server: every window holds one shot, except the windows of input.empty.
EmptyChoices == {{PartitionAt(LeagueTeams, 2)}}
ServerShots(p) == IF p \in input.empty THEN << >> ELSE <<p>>
TeamsBody == [teams |-> [i \in 1..MaxTeams |-> [id |-> LeagueTeams[i]]]]

\* dict.get(key, default)
Get(body, key, default) == IF key \in DOMAIN body THEN body[key] ELSE default

\* teams = [t["id"] for t in data.get("teams", [])]
get_team_ids(data) ==
    LET teams == Get(data, "teams", << >>) IN [i \in DOMAIN teams |-> teams[i].id]

EmptyProgress == [done |-> << >>, shots |-> << >>]

\* json.dump then json.load of the progress: the keys are strings already, the
\* values booleans and the shots as they were parsed.
save_progress(progress) == Some(progress)
load_progress == IF files.progress = None THEN EmptyProgress ELSE Val(files.progress)

\* progress["done"][team_id] of a team not scraped before
NotStarted ==
    [period \in {str(PERIODS[i]) : i \in DOMAIN PERIODS} |->
        [window \in {window_key(TIME_WINDOWS[i]) : i \in DOMAIN TIME_WINDOWS} |-> FALSE]]

IsDone(progress, p) ==
    /\ p.team \in DOMAIN progress.done
    /\ progress.done[p.team][str(p.period)][window_key(p.window)]

\* The loops without the skip of the windows already done.
Scan_NoSkip(progress, team_ids, pos) ==
    IF pos > Len(team_ids) * PerTeam THEN [progress |-> progress, pos |-> pos]
    ELSE LET p == PartitionAt(team_ids, pos)
         IN  [progress |-> IF p.team \in DOMAIN progress.done THEN progress
                           ELSE [progress EXCEPT !.done = With(@, p.team, NotStarted)],
              pos |-> pos]

\* The loops of get_all_league_shots and scrape_team from iteration pos up to the
\* next window that is not done: a team met for the first time is initialized
\* (lines 78-82), a window already done is skipped (lines 93-95).
RECURSIVE Scan(_, _, _)
Scan(progress, team_ids, pos) ==
    IF pos > Len(team_ids) * PerTeam THEN [progress |-> progress, pos |-> pos]
    ELSE LET p == PartitionAt(team_ids, pos)
             entered == IF p.team \in DOMAIN progress.done THEN progress
                        ELSE [progress EXCEPT !.done = With(@, p.team, NotStarted)]
         IN  IF IsDone(entered, p) THEN Scan(entered, team_ids, pos + 1)
             ELSE [progress |-> entered, pos |-> pos]

\* ret keeps what the runs have met: the windows whose last request failed
\* permanently, whether a request has failed, and whether a run has resumed from a
\* progress file.
NoRequest == [op |-> "none", failed |-> {}, outage |-> FALSE, resumed |-> FALSE]

NoProcess == [progress |-> EmptyProgress, team_ids |-> << >>, pos |-> 0, resp |-> Fallback]

\* What safe_get_json can return for a body the server holds: the body, or, once in
\* a behaviour, the fallback after the retries are exhausted.
Outcomes == IF ret.outage THEN {"answered"} ELSE {"answered", "failed"}

\* progress = load_progress(); team_ids = get_team_ids()
StartRun ==
    /\ pc = "start"
    /\ \E outcome \in Outcomes :
          /\ local' = [progress |-> load_progress,
                       team_ids |-> get_team_ids(IF outcome = "answered" THEN TeamsBody
                                                 ELSE Fallback),
                       pos |-> 1, resp |-> Fallback]
          /\ ret' = [ret EXCEPT !.outage = @ \/ outcome = "failed",
                                !.resumed = @ \/ files.progress # None]
    /\ pc' = "scan"
    /\ UNCHANGED <<input, prev, db, AQR_STATS_CACHE, SHOOTER_CACHE, SKILL_CACHE, files>>

\* for tid in team_ids: scrape_team(...), up to the next window to scrape
ScanWindows ==
    /\ pc = "scan"
    /\ LET r == Scan(local.progress, local.team_ids, local.pos)
       IN  /\ local' = [local EXCEPT !.progress = r.progress, !.pos = r.pos]
           /\ pc' = IF r.pos > Len(local.team_ids) * PerTeam THEN "output" ELSE "request"
    /\ UNCHANGED <<input, ret, prev, db, AQR_STATS_CACHE, SHOOTER_CACHE, SKILL_CACHE, files>>

\* resp = safe_get_json(url, params)
RequestWindow ==
    /\ pc = "request"
    /\ LET p == PartitionAt(local.team_ids, local.pos)
       IN  \E outcome \in Outcomes :
              /\ local' = [local EXCEPT !.resp = IF outcome = "answered"
                                                 THEN [results |-> ServerShots(p)]
                                                 ELSE Fallback]
              /\ ret' = [ret EXCEPT !.op = "request",
                                    !.failed = IF outcome = "failed" THEN @ \cup {p}
                                               ELSE @ \ {p},
                                    !.outage = @ \/ outcome = "failed"]
    /\ pc' = "record"
    /\ UNCHANGED <<input, prev, db, AQR_STATS_CACHE, SHOOTER_CACHE, SKILL_CACHE, files>>

\* shots = resp.get("results", []); progress["shots"].extend(shots); the window is
\* marked done; save_progress(progress)
RecordWindow ==
    /\ pc = "record"
    /\ LET p == PartitionAt(local.team_ids, local.pos)
           shots == Get(local.resp, "results", << >>)
           progress == [done |-> [local.progress.done EXCEPT
                                     ![p.team][str(p.period)][window_key(p.window)] = TRUE],
                        shots |-> local.progress.shots \o shots]
       IN  /\ local' = [local EXCEPT !.progress = progress, !.pos = @ + 1]
           /\ files' = [files EXCEPT !.progress = save_progress(progress)]
    /\ pc' = "scan"
    /\ UNCHANGED <<input, ret, prev, db, AQR_STATS_CACHE, SHOOTER_CACHE, SKILL_CACHE>>

\* json.dump(progress["shots"], f) into OUTPUT_FILE; return progress["shots"]
WriteOutput ==
    /\ pc = "output"
    /\ files' = [files EXCEPT !.output = Some(local.progress.shots)]
    /\ pc' = "finished"
    /\ UNCHANGED <<input, ret, prev, db, AQR_STATS_CACHE, SHOOTER_CACHE, SKILL_CACHE, local>>

\* The process is stopped, at any point or after it has finished, and will be
\* started again: what it held in memory is gone, the files stay.
Stop ==
    /\ pc # "start"
    /\ pc' = "start"
    /\ local' = NoProcess
    /\ UNCHANGED <<input, ret, prev, db, AQR_STATS_CACHE, SHOOTER_CACHE, SKILL_CACHE, files>>

InitScrape ==
    /\ input \in [empty : EmptyChoices]
    /\ ret = NoRequest
    /\ prev = NoCall
    /\ db = << >>
    /\ AQR_STATS_CACHE = << >>
    /\ SHOOTER_CACHE = << >>
    /\ SKILL_CACHE = << >>
    /\ pc = "start"
    /\ local = NoProcess
    /\ files = [progress |-> None, output |-> None]

NextScrape ==
    \/ StartRun
    \/ ScanWindows
    \/ RequestWindow
    \/ RecordWindow
    \/ WriteOutput
    \/ Stop

SpecScrape == InitScrape /\ [][NextScrape]_vars

\* The shots of the windows of the league marked done in progress, in the order
\* of the loops, from iteration pos on.
RECURSIVE ShotsOfDone(_, _)
ShotsOfDone(progress, pos) ==
    IF pos > MaxTeams * PerTeam THEN << >>
    ELSE (IF IsDone(progress, PartitionAt(LeagueTeams, pos))
          THEN ServerShots(PartitionAt(LeagueTeams, pos)) ELSE << >>)
         \o ShotsOfDone(progress, pos + 1)

\* The number of times the shot of window p is in the list.
Occurrences(shots, p) == Cardinality({i \in DOMAIN shots : shots[i] = p})

C25_DoneOnlyIfAnswered ==
    /\ \A p \in AllPartitions : IsDone(load_progress, p) => p \notin ret.failed
    /\ pc = "finished" =>
          \A p \in ret.failed : Occurrences(Val(files.output), p) = Len(ServerShots(p))

=============================================================================
